---- MODULE Spec2Model ----
(***************************************************************************)
(* Model of the code-review workflow of Codex/graph/workflow.py: the       *)
(* ReviewState record, the router route_next_agent, the step functions of  *)
(* Codex/agents/*.py, the compiled LangGraph graph that drives them and    *)
(* the CLI host loop of Codex/test_cli.py.                                 *)
(***************************************************************************)
EXTENDS Integers, Sequences, FiniteSets, TLC

VARIABLES
    st,          \* the ReviewState record threaded through the nodes
    pc,          \* position of control: a CLI line, a graph node, or an end
    steps,       \* LangGraph supersteps executed by the current invoke
    order,       \* step nodes executed by the current invoke, in order of first execution
    again,       \* step nodes the current invoke executed more than once
    caller,      \* "cli" (test_cli.test_workflow) or "direct" (graph.invoke)
    llm_client,  \* utils.llm.llm_client, the lazily built module global
    prompts,     \* times the CLI asked for a repository URL
    exc,         \* exception raised out of graph.invoke / the process
    output,      \* what the CLI printed: "none", "results", "error"
    last,        \* record of the last executed step node (history)
    hist,        \* run-wide history flags
    routed,      \* result of the last route_next_agent call
    call,        \* the function call made in a function-level specification
    workflow     \* multifinaltwo.workflow, the module-level WorkflowState object

vars == <<st, pc, steps, order, again, caller, call, workflow, llm_client, prompts, exc, output,
          last, hist, routed>>

----------------------------------------------------------------------------
(* Bounds of the model *)

MaxPrompts == 1
MaxFiles == 1
MaxFailures == 2
MaxReviewFiles == 3
MaxFindings == 3
MaxRuns == 2
MaxTools == 2
MaxTransitions == 2

(* Python's None, for the Optional[str] fields *)
None == "None"

(* No function has been called on its own *)
NoCall == [fn |-> "none"]

(* multifinaltwo.py: WorkflowState() as constructed at import; updates is  *)
(* the length of the updates list                                          *)
WorkflowState == [issue_key |-> None, slack_thread_ts |-> None, updates |-> 0]

(* langgraph.graph.END *)
END == "__end__"

----------------------------------------------------------------------------
(* Values the external collaborators can produce *)

GoodGithub == "https://github.com/acme/widget"
GoodGitlab == "http://gitlab.com/acme/widget"
BadHost == "https://bitbucket.org/acme/widget"
BadPath == "https://github.com/acme"

Urls == {GoodGithub, GoodGitlab, BadHost, BadPath}

(* Structure of the URL strings above, as the regular expressions see it *)
UrlParts(u) ==
    CASE u = GoodGithub -> [scheme |-> "https", host |-> "github.com", owner |-> "acme", name |-> "widget"]
      [] u = GoodGitlab -> [scheme |-> "http", host |-> "gitlab.com", owner |-> "acme", name |-> "widget"]
      [] u = BadHost -> [scheme |-> "https", host |-> "bitbucket.org", owner |-> "acme", name |-> "widget"]
      [] u = BadPath -> [scheme |-> "https", host |-> "github.com", owner |-> "acme", name |-> ""]
      [] OTHER -> [scheme |-> "", host |-> "", owner |-> "", name |-> ""]

(* re.match(r'https?://(github\.com|gitlab\.com)/[\w\-]+/[\w\-]+', url) *)
url_pattern_matches(u) ==
    LET p == UrlParts(u) IN
    /\ p.scheme \in {"http", "https"}
    /\ p.host \in {"github.com", "gitlab.com"}
    /\ p.owner # ""
    /\ p.name # ""

(* User requests: the text and the URL it literally contains, if any *)
UserInputs == {"review https://github.com/acme/widget for security",
               "please review my code"}

UrlInText(t) ==
    IF t = "review https://github.com/acme/widget for security" THEN GoodGithub
    ELSE IF t \in Urls THEN t
    ELSE None

(* re.search(r'https://github\.com/[\w\-]+/[\w\-]+', user_input) *)
regex_fallback(t) ==
    LET u == UrlInText(t) IN
    IF u # None /\ UrlParts(u).scheme = "https" /\ UrlParts(u).host = "github.com"
       /\ UrlParts(u).owner # "" /\ UrlParts(u).name # ""
    THEN u ELSE None

(* Python truthiness of an Optional[str] *)
Truthy(x) == x # None /\ x # ""

----------------------------------------------------------------------------
(* graph/state.py: ReviewState *)

NoReport == [kind |-> "none"]

ReviewState(user_input) ==
    [ user_input |-> user_input,
      slack_thread_ts |-> None,
      repo_url |-> None,
      review_intent |-> "deep_review",
      is_valid_repo |-> FALSE,
      validation_error |-> None,
      ask_for_repo |-> FALSE,
      issue_key |-> None,
      jira_created |-> FALSE,
      repo_path |-> None,
      files_to_review |-> <<>>,
      agent_status |-> "initialized",
      review_report |-> NoReport,
      score |-> 0,
      critical_issues |-> <<>>,
      high_priority |-> <<>>,
      error |-> None,
      review_started |-> FALSE,
      deep_reviewed |-> FALSE,
      report_generated |-> FALSE,
      jira_updated |-> FALSE,
      slack_updated |-> FALSE ]

----------------------------------------------------------------------------
(* graph/workflow.py: route_next_agent *)

(* a router that stops the run once an error has been recorded *)
route_next_agent_error(s) ==
    IF Truthy(s.error) THEN END
    ELSE IF s.ask_for_repo \/ ~Truthy(s.repo_url) THEN "ask_repo"
    ELSE IF ~s.is_valid_repo THEN "validate_repo"
    ELSE IF ~s.jira_created THEN "create_jira"
    ELSE IF ~Truthy(s.slack_thread_ts) THEN "notify_slack"
    ELSE IF ~Truthy(s.repo_path) THEN "clone_repo"
    ELSE IF ~s.review_started THEN "mark_review_in_progress"
    ELSE IF ~s.deep_reviewed THEN "deep_review"
    ELSE IF ~s.report_generated THEN "generate_report"
    ELSE IF ~s.jira_updated THEN "update_jira"
    ELSE IF ~s.slack_updated THEN "update_slack"
    ELSE END

(* a router whose first guard forgets ask_for_repo *)
route_next_agent_noask(s) ==
    IF ~Truthy(s.repo_url) THEN "ask_repo"
    ELSE IF ~s.is_valid_repo THEN "validate_repo"
    ELSE IF ~s.jira_created THEN "create_jira"
    ELSE IF ~Truthy(s.slack_thread_ts) THEN "notify_slack"
    ELSE IF ~Truthy(s.repo_path) THEN "clone_repo"
    ELSE IF ~s.review_started THEN "mark_review_in_progress"
    ELSE IF ~s.deep_reviewed THEN "deep_review"
    ELSE IF ~s.report_generated THEN "generate_report"
    ELSE IF ~s.jira_updated THEN "update_jira"
    ELSE IF ~s.slack_updated THEN "update_slack"
    ELSE END

(* the ticket and chat guards in the wrong order *)
route_next_agent_swapped(s) ==
    IF s.ask_for_repo \/ ~Truthy(s.repo_url) THEN "ask_repo"
    ELSE IF ~s.is_valid_repo THEN "validate_repo"
    ELSE IF ~Truthy(s.slack_thread_ts) THEN "notify_slack"
    ELSE IF ~s.jira_created THEN "create_jira"
    ELSE IF ~Truthy(s.repo_path) THEN "clone_repo"
    ELSE IF ~s.review_started THEN "mark_review_in_progress"
    ELSE IF ~s.deep_reviewed THEN "deep_review"
    ELSE IF ~s.report_generated THEN "generate_report"
    ELSE IF ~s.jira_updated THEN "update_jira"
    ELSE IF ~s.slack_updated THEN "update_slack"
    ELSE END

(* a router that names a node outside the routed steps *)
route_next_agent_parse(s) ==
    IF s.ask_for_repo \/ ~Truthy(s.repo_url) THEN "parse_input"
    ELSE IF ~s.is_valid_repo THEN "validate_repo"
    ELSE IF ~s.jira_created THEN "create_jira"
    ELSE IF ~Truthy(s.slack_thread_ts) THEN "notify_slack"
    ELSE IF ~Truthy(s.repo_path) THEN "clone_repo"
    ELSE IF ~s.review_started THEN "mark_review_in_progress"
    ELSE IF ~s.deep_reviewed THEN "deep_review"
    ELSE IF ~s.report_generated THEN "generate_report"
    ELSE IF ~s.jira_updated THEN "update_jira"
    ELSE IF ~s.slack_updated THEN "update_slack"
    ELSE END

(* a router that consults the supervisor once the review has started *)
route_next_agent_supervisor(s) ==
    IF s.ask_for_repo \/ ~Truthy(s.repo_url) THEN "ask_repo"
    ELSE IF ~s.is_valid_repo THEN "validate_repo"
    ELSE IF ~s.jira_created THEN "create_jira"
    ELSE IF ~Truthy(s.slack_thread_ts) THEN "notify_slack"
    ELSE IF ~Truthy(s.repo_path) THEN "clone_repo"
    ELSE IF ~s.review_started THEN "mark_review_in_progress"
    ELSE IF s.agent_status = "review_in_progress" THEN "supervisor_decide"
    ELSE IF ~s.deep_reviewed THEN "deep_review"
    ELSE IF ~s.report_generated THEN "generate_report"
    ELSE IF ~s.jira_updated THEN "update_jira"
    ELSE IF ~s.slack_updated THEN "update_slack"
    ELSE END

route_next_agent(s) ==
    IF s.ask_for_repo \/ ~Truthy(s.repo_url) THEN "ask_repo"
    ELSE IF ~s.is_valid_repo THEN "validate_repo"
    ELSE IF ~s.jira_created THEN "create_jira"
    ELSE IF ~Truthy(s.slack_thread_ts) THEN "notify_slack"
    ELSE IF ~Truthy(s.repo_path) THEN "clone_repo"
    ELSE IF ~s.review_started THEN "mark_review_in_progress"
    ELSE IF ~s.deep_reviewed THEN "deep_review"
    ELSE IF ~s.report_generated THEN "generate_report"
    ELSE IF ~s.jira_updated THEN "update_jira"
    ELSE IF ~s.slack_updated THEN "update_slack"
    ELSE END

----------------------------------------------------------------------------
(* External calls.  A step is run against the set F of calls that fail on  *)
(* this execution; a call outside F succeeds.                              *)

TicketCalls == {"JIRA", "jira.fields", "jira.create_issue", "jira.add_comment",
                "jira.transitions", "jira.transition_issue",
                "jira.add_comment_summary", "jira.add_comment_details",
                "jira.add_attachment", "jira.add_comment_download",
                "jira.transition_in_progress", "jira.transition_done",
                "JIRA_wrapper", "jira.transition_done_wrapper"}
ChatCalls == {"slack.post_start", "slack.post_progress", "slack.post_clone",
              "slack.post_main", "slack.post_details", "slack.files_upload",
              "slack.post_upload_note"}

(* The calls of sequence cs that are attempted and fail: a failing call    *)
(* that is not in caught raises to the enclosing handler and ends the      *)
(* sequence.                                                               *)
FailureSets(calls) == {F \in SUBSET calls : Cardinality(F) <= MaxFailures}

RECURSIVE FailedCalls(_, _, _)
FailedCalls(cs, caught, F) ==
    IF cs = <<>> THEN {}
    ELSE IF Head(cs) \in F
         THEN IF Head(cs) \in caught
              THEN {Head(cs)} \cup FailedCalls(Tail(cs), caught, F)
              ELSE {Head(cs)}
         ELSE FailedCalls(Tail(cs), caught, F)

----------------------------------------------------------------------------
(* agents/parser_agent.py: parse_user_input.  r is what the request parser *)
(* (the LLM) did: kind "json" with the parsed repo_url and review_intent,  *)
(* "notjson" (json.JSONDecodeError) or "error" (any other exception).      *)

ParsedUrls == Urls \cup {None, "", "null"}
ParsedIntents == {None, "", "null", "security_focused"}

AllParserResults ==
    [kind : {"json"}, repo_url : ParsedUrls, review_intent : ParsedIntents]
    \cup {[kind |-> "notjson", repo_url |-> None, review_intent |-> None],
          [kind |-> "error", repo_url |-> None, review_intent |-> None]}

(* The parser results the workflow runs are explored with *)
ParserResults ==
    { [kind |-> "json", repo_url |-> GoodGithub, review_intent |-> "security_focused"],
      [kind |-> "json", repo_url |-> BadHost, review_intent |-> None],
      [kind |-> "json", repo_url |-> None, review_intent |-> None],
      [kind |-> "json", repo_url |-> "null", review_intent |-> "null"],
      [kind |-> "notjson", repo_url |-> None, review_intent |-> None],
      [kind |-> "error", repo_url |-> None, review_intent |-> None] }

(* a parser that stores the intent exactly as the LLM returned it *)
parse_user_input_rawintent(s, r) ==
    IF r.kind = "json" THEN
        LET s1 == [s EXCEPT !.repo_url = r.repo_url, !.review_intent = r.review_intent]
            s2 == IF ~Truthy(s1.repo_url) \/ s1.repo_url = "null"
                  THEN [s1 EXCEPT !.ask_for_repo = TRUE] ELSE s1
        IN [s2 EXCEPT !.agent_status = "parsed"]
    ELSE IF r.kind = "notjson" THEN
        LET url_match == regex_fallback(s.user_input) IN
        IF url_match # None
        THEN [s EXCEPT !.repo_url = url_match, !.review_intent = "deep_review",
                       !.agent_status = "parsed"]
        ELSE [s EXCEPT !.ask_for_repo = TRUE,
                       !.error = "Could not extract repository URL"]
    ELSE [s EXCEPT !.error = "parser exception"]

parse_user_input(s, r) ==
    IF r.kind = "json" THEN
        LET review_intent ==
                IF ~Truthy(r.review_intent) \/ r.review_intent = "null"
                THEN "deep_review" ELSE r.review_intent
            s1 == [s EXCEPT !.repo_url = r.repo_url, !.review_intent = review_intent]
            s2 == IF ~Truthy(s1.repo_url) \/ s1.repo_url = "null"
                  THEN [s1 EXCEPT !.ask_for_repo = TRUE] ELSE s1
        IN [s2 EXCEPT !.agent_status = "parsed"]
    ELSE IF r.kind = "notjson" THEN
        LET url_match == regex_fallback(s.user_input) IN
        IF url_match # None
        THEN [s EXCEPT !.repo_url = url_match, !.review_intent = "deep_review",
                       !.agent_status = "parsed"]
        ELSE [s EXCEPT !.ask_for_repo = TRUE,
                       !.error = "Could not extract repository URL"]
    ELSE [s EXCEPT !.error = "parser exception"]

----------------------------------------------------------------------------
(* agents/validator_agent.py: validate_repo *)

(* a validator that withdraws an earlier validation when it asks again *)
validate_repo_reset(s) ==
    IF ~Truthy(s.repo_url) \/ s.ask_for_repo
    THEN [s EXCEPT !.ask_for_repo = TRUE, !.is_valid_repo = FALSE,
                   !.agent_status = "awaiting_repo_input"]
    ELSE IF ~url_pattern_matches(s.repo_url)
    THEN [s EXCEPT !.validation_error = "Invalid URL", !.ask_for_repo = TRUE,
                   !.is_valid_repo = FALSE, !.agent_status = "awaiting_repo_input"]
    ELSE [s EXCEPT !.is_valid_repo = TRUE, !.agent_status = "validated"]

(* a validator that accepts the repository while it asks for another one *)
validate_repo_both(s) ==
    IF ~Truthy(s.repo_url) \/ s.ask_for_repo
    THEN [s EXCEPT !.ask_for_repo = TRUE, !.agent_status = "awaiting_repo_input"]
    ELSE IF ~url_pattern_matches(s.repo_url)
    THEN [s EXCEPT !.validation_error = "Invalid URL", !.ask_for_repo = TRUE,
                   !.is_valid_repo = TRUE, !.agent_status = "awaiting_repo_input"]
    ELSE [s EXCEPT !.is_valid_repo = TRUE, !.agent_status = "validated"]

(* a validator that stops asking once the repository it reads is valid *)
validate_repo_clear(s) ==
    IF ~Truthy(s.repo_url)
    THEN [s EXCEPT !.ask_for_repo = TRUE, !.agent_status = "awaiting_repo_input"]
    ELSE IF ~url_pattern_matches(s.repo_url)
    THEN [s EXCEPT !.validation_error = "Invalid URL", !.ask_for_repo = TRUE,
                   !.agent_status = "awaiting_repo_input"]
    ELSE [s EXCEPT !.is_valid_repo = TRUE, !.ask_for_repo = FALSE,
                   !.agent_status = "validated"]

validate_repo(s) ==
    IF ~Truthy(s.repo_url) \/ s.ask_for_repo
    THEN [s EXCEPT !.ask_for_repo = TRUE, !.agent_status = "awaiting_repo_input"]
    ELSE IF ~url_pattern_matches(s.repo_url)
    THEN [s EXCEPT !.validation_error = "Invalid URL", !.ask_for_repo = TRUE,
                   !.agent_status = "awaiting_repo_input"]
    ELSE [s EXCEPT !.is_valid_repo = TRUE, !.agent_status = "validated"]

----------------------------------------------------------------------------
(* agents/jira_creator_agent.py: create_jira_issue *)

IssueKey == "CR-1"

create_jira_calls == <<"llm.invoke", "JIRA", "jira.fields", "jira.create_issue",
                       "jira.add_comment">>
create_jira_caught == {"jira.fields"}

(* a ticket step that marks the ticket created when the creation failed *)
create_jira_issue_nokey(s, F) ==
    IF ~s.is_valid_repo
    THEN [s EXCEPT !.error = "Cannot create issue without valid repo"]
    ELSE IF {"llm.invoke", "JIRA", "jira.create_issue"} \cap F # {}
    THEN [s EXCEPT !.jira_created = TRUE, !.error = "Jira creation failed"]
    ELSE LET s1 == [s EXCEPT !.issue_key = IssueKey, !.jira_created = TRUE,
                             !.agent_status = "jira_created"]
         IN IF "jira.add_comment" \in F
            THEN [s1 EXCEPT !.error = "Jira creation failed"]
            ELSE s1

create_jira_issue(s, F) ==
    IF ~s.is_valid_repo
    THEN [s EXCEPT !.error = "Cannot create issue without valid repo"]
    ELSE IF {"llm.invoke", "JIRA", "jira.create_issue"} \cap F # {}
    THEN [s EXCEPT !.error = "Jira creation failed"]
    ELSE LET s1 == [s EXCEPT !.issue_key = IssueKey, !.jira_created = TRUE,
                             !.agent_status = "jira_created"]
         IN IF "jira.add_comment" \in F
            THEN [s1 EXCEPT !.error = "Jira creation failed"]
            ELSE s1

create_jira_failed(s, F) ==
    IF ~s.is_valid_repo THEN {}
    ELSE FailedCalls(create_jira_calls, create_jira_caught, F)

----------------------------------------------------------------------------
(* agents/slack_notifier_agent.py: notify_slack_start *)

ThreadTs == "1700000000.000100"

notify_slack_calls == <<"slack.post_start", "slack.post_progress">>

notify_slack_start(s, F) ==
    IF "slack.post_start" \in F
    THEN [s EXCEPT !.error = "Slack error"]
    ELSE LET s1 == [s EXCEPT !.slack_thread_ts = ThreadTs,
                             !.agent_status = "slack_notified"]
         IN IF "slack.post_progress" \in F
            THEN [s1 EXCEPT !.error = "Slack error"]
            ELSE s1

notify_slack_failed(s, F) == FailedCalls(notify_slack_calls, {}, F)

----------------------------------------------------------------------------
(* agents/code_clone_agent.py: clone_and_analyze.  n is the number of      *)
(* Python files the clone contains.                                        *)

TempDir == "Repos/tmp1"

FileName(i) ==
    IF i = 1 THEN "a.py" ELSE IF i = 2 THEN "b.py" ELSE IF i = 3 THEN "c.py" ELSE "d.py"
PyFiles(n) == [i \in 1..n |-> FileName(i)]

clone_and_analyze(s, F, n) ==
    IF "os.makedirs" \in F
    THEN [s EXCEPT !.error = "Failed to create temp directory"]
    ELSE IF "git.clone" \in F
    THEN [s EXCEPT !.error = "Repository clone failed"]
    ELSE IF "rglob" \in F
    THEN [s EXCEPT !.repo_path = TempDir, !.error = "Repository clone failed"]
    ELSE [s EXCEPT !.repo_path = TempDir, !.files_to_review = PyFiles(n),
                   !.agent_status = "repo_cloned"]

(* The directories of this attempt that exist when the step returns:      *)
(* mkdtemp creates one, and the failure handler removes it unless          *)
(* shutil.rmtree raises, which is only logged.                             *)
clone_dirs_left(F) ==
    IF "os.makedirs" \in F THEN {}
    ELSE IF {"git.clone", "rglob"} \cap F # {}
    THEN (IF "shutil.rmtree" \in F THEN {TempDir} ELSE {})
    ELSE {TempDir}

clone_failed(s, F) ==
    IF {"os.makedirs", "git.clone", "rglob"} \cap F # {}
    THEN FailedCalls(<<"os.makedirs", "git.clone", "rglob">>, {}, F)
    ELSE FailedCalls(<<"JIRA", "jira.add_comment">>, {}, F)
         \cup (IF Truthy(s.slack_thread_ts)
               THEN FailedCalls(<<"slack.post_clone">>, {}, F) ELSE {})

----------------------------------------------------------------------------
(* graph/workflow.py: mark_review_in_progress.  in_review tells whether    *)
(* the ticket offers a transition whose name contains "in review".         *)

mark_review_in_progress(s, F, in_review) ==
    IF "JIRA" \in F \/ "jira.transitions" \in F
       \/ (in_review /\ "jira.transition_issue" \in F)
    THEN s
    ELSE [s EXCEPT !.review_started = TRUE, !.agent_status = "review_in_progress"]

mark_review_failed(s, F, in_review) ==
    FailedCalls(IF in_review THEN <<"JIRA", "jira.transitions", "jira.transition_issue">>
                ELSE <<"JIRA", "jira.transitions">>, {}, F)

----------------------------------------------------------------------------
(* agents/code_review_agent.py: deep_code_review.  R[i] is what happened   *)
(* for the i-th file: kind "error" (reading the file or the analyzer call  *)
(* raised), "notjson" (unparsable analyzer text) or "json" (an analysis).  *)

NoScore == 0 - 1

Analyses ==
    { [kind |-> "json", score |-> 90, issues |-> <<[line |-> 10, severity |-> "critical"]>>,
       lines |-> TRUE, strengths |-> TRUE],
      [kind |-> "json", score |-> 81,
       issues |-> <<[line |-> 3, severity |-> "high"], [line |-> 7, severity |-> "medium"]>>,
       lines |-> FALSE, strengths |-> FALSE],
      [kind |-> "json", score |-> NoScore, issues |-> <<>>, lines |-> FALSE,
       strengths |-> FALSE] }

AllAnalyzerResults ==
    Analyses \cup
    { [kind |-> "notjson", score |-> NoScore, issues |-> <<>>, lines |-> FALSE, strengths |-> FALSE],
      [kind |-> "error", score |-> NoScore, issues |-> <<>>, lines |-> FALSE, strengths |-> FALSE] }

(* The analyzer results the workflow runs are explored with *)
AnalyzerResults ==
    { r \in AllAnalyzerResults : r.kind # "json" \/ r.score = 90 }

Finding(file, r) ==
    IF r.kind = "json"
    THEN [file |-> file, score |-> r.score, issues |-> r.issues, lines |-> r.lines,
          strengths |-> r.strengths, placeholder |-> FALSE]
    ELSE [file |-> file, score |-> 70, issues |-> <<>>, lines |-> FALSE,
          strengths |-> FALSE, placeholder |-> TRUE]

(* a review loop that skips a file whose analysis is not valid JSON *)
RECURSIVE review_files_drop(_, _, _)
review_files_drop(files, R, i) ==
    IF i > Len(files) THEN <<>>
    ELSE (IF R[i].kind = "json" THEN <<Finding(files[i], R[i])>> ELSE <<>>)
         \o review_files_drop(files, R, i + 1)

RECURSIVE review_files(_, _, _)
review_files(files, R, i) ==
    IF i > Len(files) THEN <<>>
    ELSE (IF R[i].kind = "error" THEN <<>> ELSE <<Finding(files[i], R[i])>>)
         \o review_files(files, R, i + 1)

deep_code_review(s, R) ==
    IF s.files_to_review = <<>> \/ ~Truthy(s.repo_path)
    THEN [s EXCEPT !.error = "No files to review"]
    ELSE [s EXCEPT !.review_report = [kind |-> "raw", findings |-> review_files(s.files_to_review, R, 1)],
                   !.agent_status = "code_reviewed"]

(* graph/workflow.py: deep_review_wrapper *)
deep_review_wrapper(s, R) ==
    [deep_code_review(s, R) EXCEPT !.deep_reviewed = TRUE, !.agent_status = "code_reviewed"]

----------------------------------------------------------------------------
(* agents/report_generator_agent.py: generate_report *)

RECURSIVE SumScores(_)
SumScores(findings) ==
    IF findings = <<>> THEN 0
    ELSE (IF Head(findings).score = NoScore THEN 70 ELSE Head(findings).score)
         + SumScores(Tail(findings))

(* a filter that also counts critical issues as high *)
RECURSIVE FilterSeverity_loose(_, _)
FilterSeverity_loose(issues, sev) ==
    IF issues = <<>> THEN <<>>
    ELSE (IF Head(issues).severity = sev
             \/ (sev = "high" /\ Head(issues).severity = "critical")
          THEN <<Head(issues)>> ELSE <<>>)
         \o FilterSeverity_loose(Tail(issues), sev)

RECURSIVE FilterSeverity(_, _)
FilterSeverity(issues, sev) ==
    IF issues = <<>> THEN <<>>
    ELSE (IF Head(issues).severity = sev THEN <<Head(issues)>> ELSE <<>>)
         \o FilterSeverity(Tail(issues), sev)

RECURSIVE CollectIssues(_, _)
CollectIssues(findings, sev) ==
    IF findings = <<>> THEN <<>>
    ELSE FilterSeverity(Head(findings).issues, sev) \o CollectIssues(Tail(findings), sev)

RECURSIVE LineByLine(_)
LineByLine(findings) ==
    IF findings = <<>> THEN <<>>
    ELSE (IF Head(findings).lines THEN <<Head(findings).file>> ELSE <<>>)
         \o LineByLine(Tail(findings))

(* a report whose score is the mean rounded to the nearest integer *)
generate_report_rounded(s) ==
    IF s.review_report.kind = "none"
    THEN [s EXCEPT !.error = "No review findings"]
    ELSE LET findings == s.review_report.findings IN
    IF findings = <<>>
    THEN [s EXCEPT !.error = "No findings"]
    ELSE LET critical == CollectIssues(findings, "critical")
             high == CollectIssues(findings, "high")
             score == (2 * SumScores(findings) + Len(findings)) \div (2 * Len(findings))
         IN [s EXCEPT !.score = score,
                      !.critical_issues = critical,
                      !.high_priority = high,
                      !.review_report =
                          [kind |-> "full",
                           overall_score |-> score,
                           critical_issues_count |-> Len(critical),
                           high_issues_count |-> Len(high),
                           files_reviewed |-> Len(findings),
                           findings |-> findings,
                           summary |-> [total_files |-> Len(findings),
                                        score_sum |-> SumScores(findings),
                                        critical_count |-> Len(critical),
                                        high_count |-> Len(high)],
                           detailed_line_by_line |-> LineByLine(findings)],
                      !.agent_status = "report_generated"]

(* a report step that marks the record even when it has nothing to report *)
generate_report_status(s) ==
    IF s.review_report.kind = "none"
    THEN [s EXCEPT !.error = "No review findings", !.agent_status = "report_generated"]
    ELSE LET findings == s.review_report.findings IN
    IF findings = <<>>
    THEN [s EXCEPT !.error = "No findings", !.agent_status = "report_generated"]
    ELSE LET critical == CollectIssues(findings, "critical")
             high == CollectIssues(findings, "high")
             score == SumScores(findings) \div Len(findings)
         IN [s EXCEPT !.score = score,
                      !.critical_issues = critical,
                      !.high_priority = high,
                      !.review_report =
                          [kind |-> "full",
                           overall_score |-> score,
                           critical_issues_count |-> Len(critical),
                           high_issues_count |-> Len(high),
                           files_reviewed |-> Len(findings),
                           findings |-> findings,
                           summary |-> [total_files |-> Len(findings),
                                        score_sum |-> SumScores(findings),
                                        critical_count |-> Len(critical),
                                        high_count |-> Len(high)],
                           detailed_line_by_line |-> LineByLine(findings)],
                      !.agent_status = "report_generated"]

(* a report that counts critical issues among the high ones *)
generate_report_counts(s) ==
    IF s.review_report.kind = "none"
    THEN [s EXCEPT !.error = "No review findings"]
    ELSE LET findings == s.review_report.findings IN
    IF findings = <<>>
    THEN [s EXCEPT !.error = "No findings"]
    ELSE LET critical == CollectIssues(findings, "critical")
             high == CollectIssues(findings, "high")
             score == SumScores(findings) \div Len(findings)
         IN [s EXCEPT !.score = score,
                      !.critical_issues = critical,
                      !.high_priority = high,
                      !.review_report =
                          [kind |-> "full",
                           overall_score |-> score,
                           critical_issues_count |-> Len(critical),
                           high_issues_count |-> Len(critical) + Len(high),
                           files_reviewed |-> Len(findings),
                           findings |-> findings,
                           summary |-> [total_files |-> Len(findings),
                                        score_sum |-> SumScores(findings),
                                        critical_count |-> Len(critical),
                                        high_count |-> Len(high)],
                           detailed_line_by_line |-> LineByLine(findings)],
                      !.agent_status = "report_generated"]

generate_report(s) ==
    IF s.review_report.kind = "none"
    THEN [s EXCEPT !.error = "No review findings"]
    ELSE LET findings == s.review_report.findings IN
    IF findings = <<>>
    THEN [s EXCEPT !.error = "No findings"]
    ELSE LET critical == CollectIssues(findings, "critical")
             high == CollectIssues(findings, "high")
             score == SumScores(findings) \div Len(findings)
         IN [s EXCEPT !.score = score,
                      !.critical_issues = critical,
                      !.high_priority = high,
                      !.review_report =
                          [kind |-> "full",
                           overall_score |-> score,
                           critical_issues_count |-> Len(critical),
                           high_issues_count |-> Len(high),
                           files_reviewed |-> Len(findings),
                           findings |-> findings,
                           summary |-> [total_files |-> Len(findings),
                                        score_sum |-> SumScores(findings),
                                        critical_count |-> Len(critical),
                                        high_count |-> Len(high)],
                           detailed_line_by_line |-> LineByLine(findings)],
                      !.agent_status = "report_generated"]

(* graph/workflow.py: generate_report_wrapper *)
(* a wrapper that gives every run a score *)
generate_report_wrapper_score(s) ==
    [generate_report(s) EXCEPT !.report_generated = TRUE, !.score = 70]

generate_report_wrapper(s) ==
    [generate_report(s) EXCEPT !.report_generated = TRUE]

----------------------------------------------------------------------------
(* agents/jira_updater_agent.py: update_jira_results *)

HasLineByLine(s) ==
    s.review_report.kind = "full" /\ s.review_report.detailed_line_by_line # <<>>

HasJiraDetails(s) ==
    s.critical_issues # <<>> \/ s.high_priority # <<>> \/ HasLineByLine(s)

update_jira_results(s, F) ==
    IF ~Truthy(s.issue_key) \/ s.review_report.kind = "none"
    THEN [s EXCEPT !.agent_status = "jira_update_skipped"]
    ELSE IF "JIRA" \in F \/ "jira.add_comment_summary" \in F
            \/ (HasJiraDetails(s) /\ "jira.add_comment_details" \in F)
    THEN [s EXCEPT !.error = "Jira update failed", !.agent_status = "jira_update_failed"]
    ELSE [s EXCEPT !.agent_status = "jira_updated"]

update_jira_results_failed(s, F) ==
    IF ~Truthy(s.issue_key) \/ s.review_report.kind = "none" THEN {}
    ELSE LET main == FailedCalls(
                        <<"JIRA", "jira.transition_in_progress", "jira.add_comment_summary">>
                        \o (IF HasJiraDetails(s) THEN <<"jira.add_comment_details">> ELSE <<>>),
                        {"jira.transition_in_progress"}, F)
         IN IF main \ {"jira.transition_in_progress"} # {} THEN main
            ELSE main \cup FailedCalls(<<"jira.add_attachment", "jira.add_comment_download">>, {}, F)
                      \cup FailedCalls(<<"jira.transition_done">>, {}, F)

(* graph/workflow.py: update_jira_wrapper *)
update_jira_wrapper(s, F) ==
    [update_jira_results(s, F) EXCEPT !.jira_updated = TRUE]

update_jira_wrapper_failed(s, F) ==
    update_jira_results_failed(s, F)
    \cup FailedCalls(<<"JIRA_wrapper", "jira.transition_done_wrapper">>, {}, F)

----------------------------------------------------------------------------
(* agents/slack_updater_agent.py: update_slack_results *)

RECURSIVE AnyStrengths(_)
AnyStrengths(findings) ==
    IF findings = <<>> THEN FALSE
    ELSE Head(findings).strengths \/ AnyStrengths(Tail(findings))

HasSlackDetails(s) ==
    s.critical_issues # <<>> \/ s.high_priority # <<>>
    \/ AnyStrengths(s.review_report.findings)

update_slack_results(s, F) ==
    IF ~Truthy(s.slack_thread_ts) \/ s.review_report.kind = "none"
    THEN [s EXCEPT !.agent_status = "slack_update_skipped"]
    ELSE IF "slack.post_main" \in F \/ (HasSlackDetails(s) /\ "slack.post_details" \in F)
    THEN [s EXCEPT !.error = "Slack update failed", !.agent_status = "slack_update_failed"]
    ELSE [s EXCEPT !.agent_status = "slack_updated"]

update_slack_failed(s, F) ==
    IF ~Truthy(s.slack_thread_ts) \/ s.review_report.kind = "none" THEN {}
    ELSE LET main == FailedCalls(<<"slack.post_main">>
                                 \o (IF HasSlackDetails(s) THEN <<"slack.post_details">> ELSE <<>>),
                                 {}, F)
         IN IF main # {} THEN main
            ELSE FailedCalls(<<"slack.files_upload", "slack.post_upload_note">>, {}, F)

----------------------------------------------------------------------------
(* agents/supervisor_agent.py: supervisor_decide.  r is what the supervisor *)
(* LLM did: kind "json" with the files_to_review of the plan (None when    *)
(* the plan has no such key), "notjson" or "error".                        *)

FirstThree(files) == SubSeq(files, 1, IF Len(files) < 3 THEN Len(files) ELSE 3)

supervisor_decide(s, r) ==
    IF s.files_to_review = <<>>
    THEN [s EXCEPT !.error = "No Python files to review"]
    ELSE IF r.kind = "json"
    THEN [s EXCEPT !.files_to_review = IF r.files = None THEN FirstThree(s.files_to_review)
                                       ELSE r.files,
                   !.agent_status = "supervisor_decided"]
    ELSE IF r.kind = "notjson"
    THEN [s EXCEPT !.files_to_review = FirstThree(s.files_to_review),
                   !.agent_status = "supervisor_decided"]
    ELSE [s EXCEPT !.agent_status = "supervisor_decided"]

----------------------------------------------------------------------------
(* graph/workflow.py: build_agentic_workflow, the compiled graph *)

StepNodes == {"parse_input", "validate_repo", "ask_repo", "create_jira", "notify_slack",
              "clone_repo", "mark_review_in_progress", "deep_review", "generate_report",
              "update_jira", "update_slack"}

Nodes == StepNodes \cup {"supervisor_decide", "orchestrator_router"}

entry_point == "parse_input"

(* update_jira wired to END like update_slack *)
edge_target_jira_end(n) ==
    CASE n = "parse_input" -> "validate_repo"
      [] n = "validate_repo" -> "orchestrator_router"
      [] n = "ask_repo" -> "parse_input"
      [] n \in {"create_jira", "notify_slack", "clone_repo", "mark_review_in_progress",
                "supervisor_decide", "deep_review", "generate_report"}
           -> "orchestrator_router"
      [] n \in {"update_jira", "update_slack"} -> END

(* add_edge: the unconditional successor of a node *)
edge_target(n) ==
    CASE n = "parse_input" -> "validate_repo"
      [] n = "validate_repo" -> "orchestrator_router"
      [] n = "ask_repo" -> "parse_input"
      [] n \in {"create_jira", "notify_slack", "clone_repo", "mark_review_in_progress",
                "supervisor_decide", "deep_review", "generate_report", "update_jira"}
           -> "orchestrator_router"
      [] n = "update_slack" -> END

(* a mapping that sends the ticket-creation key to the clone node *)
conditional_edges_crossed ==
    [k \in {"ask_repo", "validate_repo", "create_jira", "notify_slack", "clone_repo",
            "mark_review_in_progress", "supervisor_decide", "deep_review",
            "generate_report", "update_jira", "update_slack", END} |->
        IF k = "create_jira" THEN "clone_repo" ELSE k]

(* add_conditional_edges("orchestrator_router", route_next_agent, {...}) *)
conditional_edges ==
    [k \in {"ask_repo", "validate_repo", "create_jira", "notify_slack", "clone_repo",
            "mark_review_in_progress", "supervisor_decide", "deep_review",
            "generate_report", "update_jira", "update_slack", END} |-> k]

(* graph.invoke(state) is called without a config, so the engine runs with *)
(* LangGraph's default recursion_limit and raises GraphRecursionError when *)
(* that many supersteps have run without reaching END.                     *)
RecursionLimit == 25

(* a ceiling that is checked against the wrong number *)
out_of_steps_late(n) == n >= RecursionLimit + 2

out_of_steps(n) == n >= RecursionLimit

----------------------------------------------------------------------------
(* History bookkeeping *)

NoLast == [node |-> "none", selected |-> FALSE, done_before |-> FALSE, degraded |-> FALSE]

Notif(failed) == failed \cap (TicketCalls \cup ChatCalls)

(* The obligation of step node n is met in state s: the router guard that  *)
(* selects n is false (parse_input and ask_repo share the first guard).    *)
Done(n, s) ==
    CASE n \in {"parse_input", "ask_repo"} -> ~(s.ask_for_repo \/ ~Truthy(s.repo_url))
      [] n = "validate_repo" -> s.is_valid_repo
      [] n = "create_jira" -> s.jira_created
      [] n = "notify_slack" -> Truthy(s.slack_thread_ts)
      [] n = "clone_repo" -> Truthy(s.repo_path)
      [] n = "mark_review_in_progress" -> s.review_started
      [] n = "deep_review" -> s.deep_reviewed
      [] n = "generate_report" -> s.report_generated
      [] n = "update_jira" -> s.jira_updated
      [] n = "update_slack" -> s.slack_updated

Executed(n) == \E i \in 1..Len(order) : order[i] = n

(* One superstep that runs step node n, turning st into s2; failed is the  *)
(* set of external calls that were attempted and failed inside it, and     *)
(* bad_request tells that the request parser gave no valid repository.     *)
RunNodeReq(n, s2, failed, bad_request) ==
    /\ pc = n
    /\ ~out_of_steps(steps)
    /\ st' = s2
    /\ pc' = edge_target(n)
    /\ steps' = steps + 1
    /\ order' = IF Executed(n) THEN order ELSE Append(order, n)
    /\ again' = IF Executed(n) THEN again \cup {n} ELSE again
    /\ last' = [node |-> n,
                selected |-> routed = n,
                done_before |-> Done(n, st),
                degraded |-> Notif(failed) # {}]
    /\ hist' = [call_failed |-> hist.call_failed \/ failed # {},
                other_failed |-> hist.other_failed \/ (failed \ Notif(failed)) # {},
                bad_request |-> hist.bad_request \/ bad_request]
    /\ UNCHANGED <<caller, call, workflow, prompts, exc, output, routed>>

RunNode(n, s2, failed) == RunNodeReq(n, s2, failed, FALSE)

ParserFailed(r) == IF r.kind = "json" THEN {} ELSE {"llm.invoke"}

----------------------------------------------------------------------------
(* The graph nodes *)

ParseInput ==
    /\ \E r \in ParserResults :
          RunNodeReq("parse_input", parse_user_input(st, r), ParserFailed(r),
                     ~(r.kind = "json" /\ url_pattern_matches(r.repo_url)))
    /\ llm_client' = "LLMClient"

(* get_llm_client() builds LLMClient on first use; its constructor raises  *)
(* ValueError when the Azure settings are missing, outside any try block.  *)
ParseInputRaise ==
    /\ pc = "parse_input"
    /\ ~out_of_steps(steps)
    /\ llm_client = None
    /\ pc' = "raised"
    /\ exc' = "ValueError"
    /\ UNCHANGED <<st, steps, order, again, caller, call, workflow, llm_client, prompts, output, last, hist, routed>>

ValidateRepo ==
    /\ RunNode("validate_repo", validate_repo(st), {})
    /\ UNCHANGED llm_client

AskRepo ==
    /\ RunNode("ask_repo", st, {})
    /\ UNCHANGED llm_client

OrchestratorRouter ==
    /\ pc = "orchestrator_router"
    /\ ~out_of_steps(steps)
    /\ routed' = route_next_agent(st)
    /\ pc' = conditional_edges[routed']
    /\ steps' = steps + 1
    /\ UNCHANGED <<st, order, again, caller, call, workflow, llm_client, prompts, exc, output, last, hist>>

CreateJira ==
    /\ \E F \in FailureSets({"llm.invoke", "JIRA", "jira.fields", "jira.create_issue",
                        "jira.add_comment"}) :
          RunNode("create_jira", create_jira_issue(st, F), create_jira_failed(st, F))
    /\ UNCHANGED llm_client

NotifySlack ==
    /\ \E F \in FailureSets({"slack.post_start", "slack.post_progress"}) :
          RunNode("notify_slack", notify_slack_start(st, F), notify_slack_failed(st, F))
    /\ UNCHANGED llm_client

CloneRepo ==
    /\ \E F \in FailureSets({"os.makedirs", "git.clone", "rglob", "JIRA", "jira.add_comment",
                        "slack.post_clone"}), n \in 0..MaxFiles :
          RunNode("clone_repo", clone_and_analyze(st, F, n), clone_failed(st, F))
    /\ UNCHANGED llm_client

MarkReviewInProgress ==
    /\ \E F \in FailureSets({"JIRA", "jira.transitions", "jira.transition_issue"}),
          in_review \in BOOLEAN :
          RunNode("mark_review_in_progress", mark_review_in_progress(st, F, in_review),
                  mark_review_failed(st, F, in_review))
    /\ UNCHANGED llm_client

AnalyzerFailed(R) ==
    IF \E i \in DOMAIN R : R[i].kind # "json" THEN {"llm.invoke"} ELSE {}

DeepReview ==
    /\ \E R \in [1..Len(st.files_to_review) -> AnalyzerResults] :
          RunNode("deep_review", deep_review_wrapper(st, R), AnalyzerFailed(R))
    /\ UNCHANGED llm_client

GenerateReport ==
    /\ RunNode("generate_report", generate_report_wrapper(st), {})
    /\ UNCHANGED llm_client

UpdateJira ==
    /\ \E F \in FailureSets({"JIRA", "jira.transition_in_progress", "jira.add_comment_summary",
                        "jira.add_comment_details", "jira.add_attachment",
                        "jira.add_comment_download", "jira.transition_done",
                        "JIRA_wrapper", "jira.transition_done_wrapper"}) :
          RunNode("update_jira", update_jira_wrapper(st, F), update_jira_wrapper_failed(st, F))
    /\ UNCHANGED llm_client

UpdateSlack ==
    /\ \E F \in FailureSets({"slack.post_main", "slack.post_details", "slack.files_upload",
                        "slack.post_upload_note"}) :
          RunNode("update_slack", update_slack_results(st, F), update_slack_failed(st, F))
    /\ UNCHANGED llm_client

(* The engine gives up: recursion limit reached before END *)
RecursionError ==
    /\ pc \in Nodes
    /\ out_of_steps(steps)
    /\ pc' = "raised"
    /\ exc' = "GraphRecursionError"
    /\ UNCHANGED <<st, steps, order, again, caller, call, workflow, llm_client, prompts, output, last, hist, routed>>

----------------------------------------------------------------------------
(* test_cli.py: test_workflow *)

PromptInputs == {GoodGithub}

CliParse ==
    /\ pc = "cli_parse"
    /\ \E r \in ParserResults : st' = parse_user_input(st, r)
    /\ llm_client' = "LLMClient"
    /\ pc' = "cli_validate"
    /\ UNCHANGED <<steps, order, again, caller, call, workflow, prompts, exc, output, last, hist, routed>>

CliParseCrash ==
    /\ pc = "cli_parse"
    /\ llm_client = None
    /\ pc' = "crashed"
    /\ exc' = "ValueError"
    /\ UNCHANGED <<st, steps, order, again, caller, call, workflow, llm_client, prompts, output, last, hist, routed>>

CliValidate ==
    /\ pc = "cli_validate"
    /\ st' = validate_repo(st)
    /\ pc' = "cli_check"
    /\ UNCHANGED <<steps, order, again, caller, call, workflow, llm_client, prompts, exc, output, last, hist, routed>>

(* the check fails: print, prompt_repo_url(), and build a new ReviewState *)
CliRetry ==
    /\ pc = "cli_check"
    /\ ~(~st.ask_for_repo /\ Truthy(st.repo_url))
    /\ prompts < MaxPrompts
    /\ \E t \in PromptInputs : st' = ReviewState(t)
    /\ prompts' = prompts + 1
    /\ pc' = "cli_parse"
    /\ UNCHANGED <<steps, order, again, caller, call, workflow, llm_client, exc, output, last, hist, routed>>

(* the check passes: break, then graph.invoke(state) *)
CliInvoke ==
    /\ pc = "cli_check"
    /\ ~st.ask_for_repo /\ Truthy(st.repo_url)
    /\ pc' = entry_point
    /\ steps' = 0
    /\ order' = <<>>
    /\ again' = {}
    /\ UNCHANGED <<st, caller, call, workflow, llm_client, prompts, exc, output, last, hist, routed>>

CliPrintResults ==
    /\ caller = "cli"
    /\ pc = END
    /\ output' = "results"
    /\ pc' = "done"
    /\ UNCHANGED <<st, steps, order, again, caller, call, workflow, llm_client, prompts, exc, last, hist, routed>>

(* except Exception as e: print(f"Error: {e}") *)
CliPrintError ==
    /\ caller = "cli"
    /\ pc = "raised"
    /\ output' = "error"
    /\ pc' = "done"
    /\ UNCHANGED <<st, steps, order, again, caller, call, workflow, llm_client, prompts, exc, last, hist, routed>>

----------------------------------------------------------------------------
(* The workflow: a run started by the CLI or by a direct graph.invoke on a *)
(* new ReviewState.                                                        *)

Init ==
    /\ caller \in {"cli", "direct"}
    /\ \E t \in UserInputs : st = ReviewState(t)
    /\ pc = IF caller = "cli" THEN "cli_parse" ELSE entry_point
    /\ steps = 0
    /\ order = <<>>
    /\ again = {}
    /\ llm_client = None
    /\ prompts = 0
    /\ exc = None
    /\ output = "none"
    /\ last = NoLast
    /\ hist = [call_failed |-> FALSE, other_failed |-> FALSE, bad_request |-> FALSE]
    /\ routed = None
    /\ call = NoCall
    /\ workflow = WorkflowState

Next ==
    \/ ParseInput
    \/ ParseInputRaise
    \/ ValidateRepo
    \/ AskRepo
    \/ OrchestratorRouter
    \/ CreateJira
    \/ NotifySlack
    \/ CloneRepo
    \/ MarkReviewInProgress
    \/ DeepReview
    \/ GenerateReport
    \/ UpdateJira
    \/ UpdateSlack
    \/ RecursionError
    \/ CliParse
    \/ CliParseCrash
    \/ CliValidate
    \/ CliRetry
    \/ CliInvoke
    \/ CliPrintResults
    \/ CliPrintError

Spec == Init /\ [][Next]_vars

(* The engine and the CLI keep running whenever they can take a step *)
FairSpec == Spec /\ WF_vars(Next)

TypeOK ==
    /\ pc \in Nodes \cup {END, "raised", "done", "crashed", "cli_parse", "cli_validate",
                          "cli_check"}
    /\ steps \in 0..RecursionLimit
    /\ st.score \in 0..100

----------------------------------------------------------------------------
(* The router as a function: every combination of the fields it reads,     *)
(* and of the informational fields, then one call of route_next_agent.     *)

RouterInputs ==
    { [ReviewState("route") EXCEPT
          !.ask_for_repo = b[1], !.is_valid_repo = b[2], !.jira_created = b[3],
          !.review_started = b[4], !.deep_reviewed = b[5], !.report_generated = b[6],
          !.jira_updated = b[7], !.slack_updated = b[8],
          !.repo_url = o[1], !.slack_thread_ts = o[2], !.repo_path = o[3],
          !.error = o[4]] :
      b \in [1..8 -> BOOLEAN],
      o \in {None, "", GoodGithub} \X {None, ThreadTs} \X {None, TempDir}
            \X {None, "Slack error"} }

InitRoute ==
    /\ st \in RouterInputs
    /\ pc = "route_call"
    /\ steps = 0
    /\ order = <<>>
    /\ again = {}
    /\ caller = "direct"
    /\ llm_client = None
    /\ prompts = 0
    /\ exc = None
    /\ output = "none"
    /\ last = NoLast
    /\ hist = [call_failed |-> FALSE, other_failed |-> FALSE, bad_request |-> FALSE]
    /\ routed = None
    /\ call = NoCall
    /\ workflow = WorkflowState

RouteCall ==
    /\ pc = "route_call"
    /\ routed' = route_next_agent(st)
    /\ pc' = "route_done"
    /\ UNCHANGED <<st, steps, order, again, caller, call, workflow, llm_client, prompts, exc, output, last, hist>>

NextRoute == RouteCall

SpecRoute == InitRoute /\ [][NextRoute]_vars

----------------------------------------------------------------------------
(* Function-level specifications: one call of a step function on each of   *)
(* the states and environment answers it can meet.  call records the       *)
(* function, the state it was given (pre) and what the environment did     *)
(* (arg); st holds the returned state.                                     *)

FnInit(inputs) ==
    /\ st \in inputs
    /\ pc = "fn_call"
    /\ steps = 0
    /\ order = <<>>
    /\ again = {}
    /\ caller = "direct"
    /\ call = NoCall
    /\ workflow = WorkflowState
    /\ llm_client = "LLMClient"
    /\ prompts = 0
    /\ exc = None
    /\ output = "none"
    /\ last = NoLast
    /\ hist = [call_failed |-> FALSE, other_failed |-> FALSE, bad_request |-> FALSE]
    /\ routed = None

FnReturn(s2, c) ==
    /\ pc = "fn_call"
    /\ st' = s2
    /\ call' = c
    /\ pc' = "fn_done"
    /\ UNCHANGED <<steps, order, again, caller, workflow, llm_client, prompts, exc, output,
                   last, hist, routed>>

(* validate_repo on every combination of the fields it reads *)
ValidatorInputs ==
    { [ReviewState(t) EXCEPT !.repo_url = u, !.ask_for_repo = a, !.is_valid_repo = v,
                             !.validation_error = e] :
      t \in UserInputs, u \in ParsedUrls, a \in BOOLEAN, v \in BOOLEAN,
      e \in {None, "Invalid URL"} }

InitValidate == FnInit(ValidatorInputs)

ValidateCall ==
    FnReturn(validate_repo(st), [fn |-> "validate_repo", pre |-> st])

NextValidate == ValidateCall

SpecValidate == InitValidate /\ [][NextValidate]_vars

(* parse_user_input on a new state or a state of an earlier pass, with     *)
(* every answer of the request parser                                      *)
ParserInputs ==
    { [ReviewState(t) EXCEPT !.repo_url = u, !.review_intent = i, !.ask_for_repo = a] :
      t \in UserInputs \cup {GoodGitlab}, u \in {None, GoodGithub},
      i \in {"deep_review", "security_focused"}, a \in BOOLEAN }

InitParse == FnInit(ParserInputs)

ParseCall ==
    \E r \in AllParserResults :
        FnReturn(parse_user_input(st, r),
                 [fn |-> "parse_user_input", pre |-> st, arg |-> r])

NextParse == ParseCall

SpecParse == InitParse /\ [][NextParse]_vars

(* deep_code_review on a cloned state with up to MaxReviewFiles files and  *)
(* every per-file outcome                                                  *)
ReviewInputs ==
    { [ReviewState("review https://github.com/acme/widget for security") EXCEPT
          !.repo_url = GoodGithub, !.is_valid_repo = TRUE, !.issue_key = IssueKey,
          !.jira_created = TRUE, !.review_started = TRUE,
          !.repo_path = p, !.files_to_review = PyFiles(n)] :
      p \in {None, TempDir}, n \in 0..MaxReviewFiles }

InitReview == FnInit(ReviewInputs)

ReviewCall ==
    \E R \in [1..Len(st.files_to_review) -> AllAnalyzerResults] :
        FnReturn(deep_code_review(st, R),
                 [fn |-> "deep_code_review", pre |-> st, arg |-> R])

NextReview == ReviewCall

SpecReview == InitReview /\ [][NextReview]_vars

(* generate_report on the findings deep_code_review can leave: up to       *)
(* MaxFindings findings, each one of the analyses below or the placeholder *)
ReportFindings ==
    { [file |-> "a.py", score |-> 80,
       issues |-> <<[line |-> 1, severity |-> "critical"], [line |-> 2, severity |-> "high"]>>,
       lines |-> TRUE, strengths |-> TRUE, placeholder |-> FALSE],
      [file |-> "b.py", score |-> 81,
       issues |-> <<[line |-> 3, severity |-> "medium"], [line |-> 4, severity |-> "critical"]>>,
       lines |-> FALSE, strengths |-> FALSE, placeholder |-> FALSE],
      [file |-> "c.py", score |-> 90, issues |-> <<>>,
       lines |-> FALSE, strengths |-> TRUE, placeholder |-> FALSE],
      [file |-> "d.py", score |-> 100,
       issues |-> <<[line |-> 5, severity |-> "high"], [line |-> 6, severity |-> "Critical"]>>,
       lines |-> TRUE, strengths |-> FALSE, placeholder |-> FALSE],
      [file |-> "e.py", score |-> 0,
       issues |-> <<[line |-> 7, severity |-> "critical"], [line |-> 8, severity |-> "critical"],
                    [line |-> 9, severity |-> "high"]>>,
       lines |-> FALSE, strengths |-> FALSE, placeholder |-> FALSE],
      [file |-> "f.py", score |-> NoScore,
       issues |-> <<[line |-> 10, severity |-> "low"]>>,
       lines |-> FALSE, strengths |-> FALSE, placeholder |-> FALSE],
      [file |-> "g.py", score |-> 70, issues |-> <<>>,
       lines |-> FALSE, strengths |-> FALSE, placeholder |-> TRUE] }

FindingSeqs == UNION { [1..n -> ReportFindings] : n \in 0..MaxFindings }

ReportInputs ==
    { [ReviewState("review https://github.com/acme/widget for security") EXCEPT
          !.repo_url = GoodGithub, !.is_valid_repo = TRUE, !.issue_key = IssueKey,
          !.jira_created = TRUE, !.review_started = TRUE, !.deep_reviewed = TRUE,
          !.repo_path = TempDir, !.review_report = rr] :
      rr \in {NoReport} \cup { [kind |-> "raw", findings |-> fs] : fs \in FindingSeqs } }

InitReport == FnInit(ReportInputs)

ReportCall ==
    FnReturn(generate_report(st), [fn |-> "generate_report", pre |-> st])

NextReport == ReportCall

SpecReport == InitReport /\ [][NextReport]_vars

(* clone_and_analyze on a validated state, first attempt or retry, with    *)
(* every combination of failing calls and up to MaxFiles files             *)
CloneInputs ==
    { [ReviewState(t) EXCEPT
          !.repo_url = u, !.is_valid_repo = TRUE, !.issue_key = IssueKey,
          !.jira_created = TRUE, !.slack_thread_ts = ts, !.error = e] :
      t \in UserInputs, u \in {GoodGithub, GoodGitlab}, ts \in {None, ThreadTs},
      e \in {None, "Repository clone failed"} }

InitClone == FnInit(CloneInputs)

CloneCall ==
    \E F \in FailureSets({"os.makedirs", "git.clone", "rglob", "shutil.rmtree", "JIRA",
                          "jira.add_comment", "slack.post_clone"}), n \in 0..MaxFiles :
        FnReturn(clone_and_analyze(st, F, n),
                 [fn |-> "clone_and_analyze", pre |-> st, arg |-> [F |-> F, n |-> n],
                  dirs |-> clone_dirs_left(F)])

NextClone == CloneCall

SpecClone == InitClone /\ [][NextClone]_vars

----------------------------------------------------------------------------
(* agents/jira_updater_agent.py: transition_to_status.  Names are sequences *)
(* of characters, so that str.lower() and the substring test `in` are      *)
(* computed.                                                               *)

TransitionNames ==
    { <<"D", "o", "n", "e">>,
      <<"M", "a", "r", "k", " ", "a", "s", " ", "D", "O", "N", "E">>,
      <<"T", "o", " ", "D", "o">>,
      <<"S", "t", "a", "r", "t", " ", "P", "r", "o", "g", "r", "e", "s", "s">>,
      <<"I", "n", " ", "R", "e", "v", "i", "e", "w">>,
      <<"R", "e", "o", "p", "e", "n">> }

DoneNames == << <<"d", "o", "n", "e">>, <<"c", "o", "m", "p", "l", "e", "t", "e", "d">>, <<"r", "e", "v", "i", "e", "w", " ", "c", "o", "m", "p", "l", "e", "t", "e">> >>

ProgressNames == << <<"i", "n", " ", "p", "r", "o", "g", "r", "e", "s", "s">>, <<"s", "t", "a", "r", "t", " ", "p", "r", "o", "g", "r", "e", "s", "s">>, <<"i", "n", " ", "r", "e", "v", "i", "e", "w">> >>

(* str.lower() *)
lower_char(c) ==
    CASE c = "D" -> "d"
      [] c = "E" -> "e"
      [] c = "I" -> "i"
      [] c = "M" -> "m"
      [] c = "N" -> "n"
      [] c = "O" -> "o"
      [] c = "P" -> "p"
      [] c = "R" -> "r"
      [] c = "S" -> "s"
      [] c = "T" -> "t"
      [] OTHER -> c

lower(name) == [i \in 1..Len(name) |-> lower_char(name[i])]

(* needle in hay *)
IsSubstring(needle, hay) ==
    \E i \in 1..(Len(hay) - Len(needle) + 1) :
        SubSeq(hay, i, i + Len(needle) - 1) = needle

RECURSIVE AnyNameIn(_, _)
AnyNameIn(possible_status_names, trans_name) ==
    IF possible_status_names = <<>> THEN FALSE
    ELSE IsSubstring(lower(Head(possible_status_names)), trans_name)
         \/ AnyNameIn(Tail(possible_status_names), trans_name)

(* a loop that takes the candidate names first and the listing second *)
RECURSIVE first_match_by_name(_, _, _)
first_match_by_name(transitions, possible_status_names, i) ==
    IF possible_status_names = <<>> THEN 0
    ELSE LET M == { j \in i..Len(transitions) :
                      IsSubstring(lower(Head(possible_status_names)),
                                  lower(transitions[j])) } IN
         IF M # {} THEN CHOOSE j \in M : \A k \in M : j <= k
         ELSE first_match_by_name(transitions, Tail(possible_status_names), i)

(* the for loop over transitions, from position i: the position of the     *)
(* transition that is applied, 0 when the loop runs out                    *)
RECURSIVE first_match(_, _, _)
first_match(transitions, possible_status_names, i) ==
    IF i > Len(transitions) THEN 0
    ELSE IF AnyNameIn(possible_status_names, lower(transitions[i])) THEN i
    ELSE first_match(transitions, possible_status_names, i + 1)

(* ticket is the issue as the ticket system holds it: the transitions it   *)
(* lists and the positions of those applied so far.  The result is the     *)
(* ticket afterwards and the returned boolean.                             *)
transition_to_status(ticket, possible_status_names, F) ==
    IF "jira.transitions" \in F THEN [ticket |-> ticket, ret |-> FALSE]
    ELSE LET m == first_match(ticket.transitions, possible_status_names, 1) IN
         IF m = 0 THEN [ticket |-> ticket, ret |-> FALSE]
         ELSE IF "jira.transition_issue" \in F THEN [ticket |-> ticket, ret |-> FALSE]
         ELSE [ticket |-> [ticket EXCEPT !.applied = Append(ticket.applied, m)],
               ret |-> TRUE]

Listings == UNION { [1..n -> TransitionNames] : n \in 0..MaxTransitions }

TicketInputs ==
    { [issue_key |-> IssueKey, transitions |-> l, applied |-> <<>>] : l \in Listings }

InitTransition == FnInit(TicketInputs)

TransitionCall ==
    \E names \in {DoneNames, ProgressNames},
       F \in SUBSET {"jira.transitions", "jira.transition_issue"} :
        LET r == transition_to_status(st, names, F) IN
        FnReturn(r.ticket,
                 [fn |-> "transition_to_status", pre |-> st,
                  arg |-> [possible_status_names |-> names, F |-> F], ret |-> r.ret])

NextTransition == TransitionCall

SpecTransition == InitTransition /\ [][NextTransition]_vars

----------------------------------------------------------------------------
(* graph/workflow.py: update_jira_wrapper, and agents/jira_updater_agent.py: *)
(* update_jira_results, as the ticket sees them.  L gives the transitions  *)
(* the ticket lists at the three times they are read: for the in-progress  *)
(* transition, for the done transition of update_jira_results and for the  *)
(* done transition of the wrapper.  The result is the sequence of comments *)
(* and transitions applied to the ticket.                                  *)

Comment(what) == [op |-> what, name |-> <<>>]

TicketTransition(L, names, failed) ==
    LET r == transition_to_status([issue_key |-> IssueKey, transitions |-> L, applied |-> <<>>],
                                  names, IF failed THEN {"jira.transitions"} ELSE {})
    IN [i \in 1..Len(r.ticket.applied) |->
           [op |-> "transition", name |-> L[r.ticket.applied[i]]]]

save_and_attach_json_report_ticket(F) ==
    IF "jira.add_attachment" \in F THEN <<>>
    ELSE <<Comment("attachment")>>
         \o (IF "jira.add_comment_download" \in F THEN <<>> ELSE <<Comment("comment_download")>>)

update_jira_results_ticket(s, F, L) ==
    IF ~Truthy(s.issue_key) \/ s.review_report.kind = "none" THEN <<>>
    ELSE IF "JIRA" \in F THEN <<>>
    ELSE LET progress == TicketTransition(L[1], ProgressNames, "jira.transition_in_progress" \in F) IN
    IF "jira.add_comment_summary" \in F THEN progress
    ELSE IF HasJiraDetails(s) /\ "jira.add_comment_details" \in F
    THEN progress \o <<Comment("comment_summary")>>
    ELSE progress \o <<Comment("comment_summary")>>
         \o (IF HasJiraDetails(s) THEN <<Comment("comment_details")>> ELSE <<>>)
         \o save_and_attach_json_report_ticket(F)
         \o TicketTransition(L[2], DoneNames, "jira.transition_done" \in F)

update_jira_wrapper_ticket(s, F, L) ==
    update_jira_results_ticket(s, F, L)
    \o (IF "JIRA_wrapper" \in F \/ ~Truthy(s.issue_key) THEN <<>>
        ELSE TicketTransition(L[3], <<<<"d", "o", "n", "e">>>>, "jira.transition_done_wrapper" \in F))

JiraListings ==
    { <<>>,
      <<<<"S", "t", "a", "r", "t", " ", "P", "r", "o", "g", "r", "e", "s", "s">>, <<"D", "o", "n", "e">>>>,
      <<<<"R", "e", "o", "p", "e", "n">>, <<"M", "a", "r", "k", " ", "a", "s", " ", "D", "O", "N", "E">>>> }

(* update_jira_wrapper on the states generate_report_wrapper can leave, with *)
(* and without a ticket                                                    *)
JiraInputs ==
    { [generate_report_wrapper(s) EXCEPT !.issue_key = k] :
      s \in { r \in ReportInputs :
                r.review_report.kind = "none" \/ Len(r.review_report.findings) <= 1 },
      k \in {None, IssueKey} }

InitJira == FnInit(JiraInputs)

JiraCall ==
    \E F \in FailureSets({"JIRA", "jira.transition_in_progress", "jira.add_comment_summary",
                          "jira.add_comment_details", "jira.add_attachment",
                          "jira.add_comment_download", "jira.transition_done",
                          "JIRA_wrapper", "jira.transition_done_wrapper"}),
       L \in [1..3 -> JiraListings] :
        FnReturn(update_jira_wrapper(st, F),
                 [fn |-> "update_jira_wrapper", pre |-> st, arg |-> [F |-> F, L |-> L],
                  ticket |-> update_jira_wrapper_ticket(st, F, L)])

NextJira == JiraCall

SpecJira == InitJira /\ [][NextJira]_vars

----------------------------------------------------------------------------
(* multifinaltwo.py: the query loop of __main__.  Every query is one run   *)
(* of the supervisor, whose tools notify through the module-level          *)
(* workflow object.  Here st is what the current run itself created: its   *)
(* number, the issue it created and the chat thread it opened.             *)

RunIssueKey(r) == IF r = 1 THEN "CR-1" ELSE IF r = 2 THEN "CR-2" ELSE "CR-3"

RunThreadTs(r) ==
    IF r = 1 THEN "1700000000.000100"
    ELSE IF r = 2 THEN "1700000000.000200" ELSE "1700000000.000300"

NoRun == [run |-> 0, issue_key |-> None, thread_ts |-> None]

(* notify_step by run r on workflow object w: the updated object, the      *)
(* thread the message went to and the issue that was commented.            *)
notify_step(w, r, slack_ok) ==
    LET w1 == [w EXCEPT !.updates = w.updates + 1]
        opens == slack_ok /\ w1.slack_thread_ts = None
        w2 == IF opens THEN [w1 EXCEPT !.slack_thread_ts = RunThreadTs(r)] ELSE w1
    IN [workflow |-> w2,
        opened |-> opens,
        thread_ts |-> IF slack_ok THEN w2.slack_thread_ts ELSE None,
        issue_key |-> w2.issue_key]

ToolReturn(r, w, slack_ok) ==
    LET n == notify_step(w, r, slack_ok) IN
    /\ pc = "run"
    /\ steps < MaxTools
    /\ workflow' = n.workflow
    /\ st' = [st EXCEPT !.issue_key = IF w.issue_key = RunIssueKey(r)
                                      THEN RunIssueKey(r) ELSE st.issue_key,
                        !.thread_ts = IF n.opened THEN n.thread_ts ELSE st.thread_ts]
    /\ call' = [fn |-> "notify_step", run |-> r, thread_ts |-> n.thread_ts,
                issue_key |-> n.issue_key]
    /\ steps' = steps + 1
    /\ UNCHANGED <<pc, order, again, caller, llm_client, prompts, exc, output, last,
                   hist, routed>>

InitRuns ==
    /\ st = NoRun
    /\ pc = "prompt"
    /\ steps = 0
    /\ order = <<>>
    /\ again = {}
    /\ caller = "cli"
    /\ call = NoCall
    /\ workflow = WorkflowState
    /\ llm_client = None
    /\ prompts = 0
    /\ exc = None
    /\ output = "none"
    /\ last = NoLast
    /\ hist = [call_failed |-> FALSE, other_failed |-> FALSE, bad_request |-> FALSE]
    /\ routed = None

(* user_query = input(...); supervisor.invoke({"messages": messages}) *)
ReadQuery ==
    /\ pc = "prompt"
    /\ st.run < MaxRuns
    /\ st' = [run |-> st.run + 1, issue_key |-> None, thread_ts |-> None]
    /\ pc' = "run"
    /\ steps' = 0
    /\ UNCHANGED <<order, again, caller, call, workflow, llm_client, prompts, exc, output,
                   last, hist, routed>>

(* tool jira_create_issue: the issue is created, then notify_step *)
JiraCreateIssue ==
    \E slack_ok \in BOOLEAN :
        ToolReturn(st.run, [workflow EXCEPT !.issue_key = RunIssueKey(st.run)], slack_ok)

(* tool code_review_clone_repo(repo_url, issue_key): issue_key is empty or *)
(* the issue this run created                                              *)
CodeReviewCloneRepo ==
    \E slack_ok \in BOOLEAN, issue_key \in {"", st.issue_key} \ {None} :
        ToolReturn(st.run,
                   IF issue_key # "" THEN [workflow EXCEPT !.issue_key = issue_key]
                   ELSE workflow,
                   slack_ok)

(* tool code_review_run_deep_analysis: notify_step on the object as it is *)
CodeReviewRunDeepAnalysis ==
    \E slack_ok \in BOOLEAN : ToolReturn(st.run, workflow, slack_ok)

(* the supervisor returns and the loop prints the result summary *)
FinishRun ==
    /\ pc = "run"
    /\ pc' = "prompt"
    /\ output' = "results"
    /\ UNCHANGED <<st, steps, order, again, caller, call, workflow, llm_client, prompts, exc,
                   last, hist, routed>>

NextRuns ==
    \/ ReadQuery
    \/ JiraCreateIssue
    \/ CodeReviewCloneRepo
    \/ CodeReviewRunDeepAnalysis
    \/ FinishRun

SpecRuns == InitRuns /\ [][NextRuns]_vars

----------------------------------------------------------------------------
(* agentic_a2a.py: the agent-to-agent graph.  A message is kept by what    *)
(* the keyword tests read from its content: "complete" contains COMPLETE   *)
(* (a keyword of both tests), "all_tasks" contains only a keyword of the   *)
(* supervisor's test, "finished" only a keyword of the orchestrator's      *)
(* test, "plain" none.  messages is kept as its length and its last        *)
(* message, which is all that supervisor and orchestrator decide on.       *)

Contents == {"plain", "complete", "all_tasks", "finished"}

Decisions == {"jira", "slack", "end"}

(* any(keyword in resp.content.upper() for keyword in ["COMPLETE", "ALL TASKS", ...]) *)
SupervisorKeyword(c) == c \in {"complete", "all_tasks"}

(* any(keyword in content.upper() for keyword in ["COMPLETE", "FINISHED", "ALL DONE"]) *)
OrchestratorKeyword(c) == c \in {"complete", "finished"}

(* __main__: initial_state *)
InitialState ==
    [messages |-> [len |-> 0, last |-> None],
     iteration_count |-> 0,
     task_completed |-> FALSE,
     next_node |-> None]

add_message(messages, c) == [len |-> messages.len + 1, last |-> c]

(* a supervisor whose safety check lets one more iteration pass *)
supervisor_late(s, c) ==
    IF s.iteration_count > 11
    THEN [s EXCEPT !.messages = add_message(@, "complete"),
                   !.iteration_count = @ + 1,
                   !.task_completed = TRUE]
    ELSE IF s.messages.len <= 1
    THEN [s EXCEPT !.messages = add_message(@, c), !.iteration_count = @ + 1]
    ELSE [s EXCEPT !.messages = add_message(@, c), !.iteration_count = @ + 1,
                   !.task_completed = SupervisorKeyword(c)]

(* c is the content of the LLM's answer *)
supervisor(s, c) ==
    IF s.iteration_count > 10
    THEN [s EXCEPT !.messages = add_message(@, "complete"),
                   !.iteration_count = @ + 1,
                   !.task_completed = TRUE]
    ELSE IF s.messages.len <= 1
    THEN [s EXCEPT !.messages = add_message(@, c), !.iteration_count = @ + 1]
    ELSE [s EXCEPT !.messages = add_message(@, c), !.iteration_count = @ + 1,
                   !.task_completed = SupervisorKeyword(c)]

(* d is the agent the routing LLM's answer names *)
orchestrator(s, d) ==
    IF s.messages.len = 0 \/ s.task_completed THEN [s EXCEPT !.next_node = "end"]
    ELSE IF OrchestratorKeyword(s.messages.last) THEN [s EXCEPT !.next_node = "end"]
    ELSE [s EXCEPT !.next_node = d]

(* jira_agent and slack_agent append their response *)
agent_node(s, c) == [s EXCEPT !.messages = add_message(@, c)]

(* build_graph: add_conditional_edges("orchestrator", ...) *)
a2a_edges == [jira |-> "jira_agent", slack |-> "slack_agent", end |-> END]

A2ANodes == {"supervisor", "orchestrator", "jira_agent", "slack_agent"}

(* supervisor executions so far *)
Executions == IF call.fn = "supervisor" THEN call.execs ELSE 0

InitA2A ==
    /\ st = InitialState
    /\ pc = "supervisor"
    /\ steps = 0
    /\ order = <<>>
    /\ again = {}
    /\ caller = "cli"
    /\ call = NoCall
    /\ workflow = WorkflowState
    /\ llm_client = None
    /\ prompts = 0
    /\ exc = None
    /\ output = "none"
    /\ last = NoLast
    /\ hist = [call_failed |-> FALSE, other_failed |-> FALSE, bad_request |-> FALSE]
    /\ routed = None

A2ASupervisor ==
    /\ pc = "supervisor"
    /\ ~out_of_steps(steps)
    /\ \E c \in Contents : st' = supervisor(st, c)
    /\ call' = [fn |-> "supervisor", pre |-> st, execs |-> Executions + 1]
    /\ pc' = "orchestrator"
    /\ steps' = steps + 1
    /\ UNCHANGED <<order, again, caller, workflow, llm_client, prompts, exc, output, last,
                   hist, routed>>

A2AOrchestrator ==
    /\ pc = "orchestrator"
    /\ ~out_of_steps(steps)
    /\ \E d \in Decisions : st' = orchestrator(st, d)
    /\ routed' = st'.next_node
    /\ pc' = a2a_edges[st'.next_node]
    /\ steps' = steps + 1
    /\ UNCHANGED <<order, again, caller, call, workflow, llm_client, prompts, exc, output,
                   last, hist>>

A2AJiraAgent ==
    /\ pc = "jira_agent"
    /\ ~out_of_steps(steps)
    /\ \E c \in Contents : st' = agent_node(st, c)
    /\ pc' = "supervisor"
    /\ steps' = steps + 1
    /\ UNCHANGED <<order, again, caller, call, workflow, llm_client, prompts, exc, output,
                   last, hist, routed>>

A2ASlackAgent ==
    /\ pc = "slack_agent"
    /\ ~out_of_steps(steps)
    /\ \E c \in Contents : st' = agent_node(st, c)
    /\ pc' = "supervisor"
    /\ steps' = steps + 1
    /\ UNCHANGED <<order, again, caller, call, workflow, llm_client, prompts, exc, output,
                   last, hist, routed>>

(* an LLM or agent call raises: no node catches it *)
A2ARaise ==
    /\ pc \in A2ANodes
    /\ ~out_of_steps(steps)
    /\ ~(pc = "supervisor" /\ st.iteration_count > 10)
    /\ ~(pc = "orchestrator" /\ orchestrator(st, "jira").next_node = "end")
    /\ pc' = "raised"
    /\ exc' = "Exception"
    /\ UNCHANGED <<st, steps, order, again, caller, call, workflow, llm_client, prompts, output,
                   last, hist, routed>>

(* app.stream(initial_state) is called without a config *)
A2ARecursionError ==
    /\ pc \in A2ANodes
    /\ out_of_steps(steps)
    /\ pc' = "raised"
    /\ exc' = "GraphRecursionError"
    /\ UNCHANGED <<st, steps, order, again, caller, call, workflow, llm_client, prompts, output,
                   last, hist, routed>>

(* __main__: except Exception, then the results are displayed *)
A2ADisplay ==
    /\ pc \in {END, "raised"}
    /\ output' = IF pc = "raised" THEN "error" ELSE "results"
    /\ pc' = "done"
    /\ UNCHANGED <<st, steps, order, again, caller, call, workflow, llm_client, prompts, exc,
                   last, hist, routed>>

NextA2A ==
    \/ A2ASupervisor
    \/ A2AOrchestrator
    \/ A2AJiraAgent
    \/ A2ASlackAgent
    \/ A2ARaise
    \/ A2ARecursionError
    \/ A2ADisplay

SpecA2A == InitA2A /\ [][NextA2A]_vars

(* The engine and __main__ keep running whenever they can take a step *)
FairSpecA2A == SpecA2A /\ WF_vars(NextA2A)

----------------------------------------------------------------------------
(* Helpers for the properties *)

IsPrefix(a, b) == Len(a) <= Len(b) /\ a = SubSeq(b, 1, Len(a))

Min(S) == CHOOSE x \in S : \A y \in S : x <= y

RoutedStepNames == {"ask_repo", "validate_repo", "create_jira", "notify_slack", "clone_repo",
                    "mark_review_in_progress", "deep_review", "generate_report",
                    "update_jira", "update_slack"}

(* The guards of the router in the documented order, with the step each selects *)
GuardList(s) ==
    << <<s.ask_for_repo \/ ~Truthy(s.repo_url), "ask_repo">>,
       <<~s.is_valid_repo, "validate_repo">>,
       <<~s.jira_created, "create_jira">>,
       <<~Truthy(s.slack_thread_ts), "notify_slack">>,
       <<~Truthy(s.repo_path), "clone_repo">>,
       <<~s.review_started, "mark_review_in_progress">>,
       <<~s.deep_reviewed, "deep_review">>,
       <<~s.report_generated, "generate_report">>,
       <<~s.jira_updated, "update_jira">>,
       <<~s.slack_updated, "update_slack">> >>

FirstTrueGuard(s) ==
    LET g == GuardList(s)
        true == {i \in 1..Len(g) : g[i][1]}
    IN IF true = {} THEN END ELSE g[Min(true)][2]

HappyPath == <<"parse_input", "validate_repo", "create_jira", "notify_slack", "clone_repo",
               "mark_review_in_progress", "deep_review", "generate_report", "update_jira",
               "update_slack">>

StepFunctions == {"validate_repo", "create_jira", "notify_slack", "clone_repo",
                  "mark_review_in_progress", "deep_review", "generate_report",
                  "update_jira", "update_slack"}

BestEffortSteps == {"create_jira", "notify_slack", "mark_review_in_progress", "update_jira",
                    "update_slack"}

----------------------------------------------------------------------------
(* C1: for every ReviewState, route_next_agent returns the name bound to   *)
(* the first true guard of the documented order, or END when none is true. *)
C1_RouterFirstTrueGuard ==
    pc = "route_done" => routed = FirstTrueGuard(st)

C1_Witness ==
    /\ pc = "route_done"
    /\ routed = "generate_report"
    /\ ~st.jira_updated /\ ~st.slack_updated

(* C2: route_next_agent is total, returns one of the ten routed step names *)
(* or END, always a key of the conditional-edge mapping of                 *)
(* orchestrator_router, and the call changes no field of the state.        *)
C2_RouterPureTotal ==
    /\ [](pc = "route_done" =>
            /\ routed \in RoutedStepNames \cup {END}
            /\ routed \in DOMAIN conditional_edges)
    /\ [][pc = "route_call" => st' = st /\ pc' = "route_done"]_vars

C2_Witness ==
    /\ pc = "route_done"
    /\ routed = END

(* C3: whenever the router returned step n and the node for n has run,     *)
(* the completion marker of n is set afterwards, so the router does not    *)
(* select n again.                                                         *)
C3_IdempotentResumption ==
    (last.node \in RoutedStepNames /\ last.selected) =>
        (Done(last.node, st) /\ route_next_agent(st) # last.node)

(* C4: a run executes only steps whose obligation is still unmet: no node  *)
(* runs in a state where its completion marker is already true.            *)
C4_NoReplay ==
    last.node \in StepNodes => ~last.done_before

(* C5: from a fresh state, with a request that parses to a valid           *)
(* repository, every external call succeeding and a non-empty set of       *)
(* files, the executed steps are always a prefix of the ten-step order     *)
(* parse, validate, create ticket, start thread, clone, mark in progress,  *)
(* analyze, synthesize, update ticket, update chat, and the run is at END  *)
(* exactly after all ten.                                                  *)
CleanRun ==
    /\ caller = "direct"
    /\ ~hist.call_failed
    /\ ~hist.bad_request
    /\ exc = None
    /\ Truthy(st.repo_path) => st.files_to_review # <<>>

C5_TerminalReachability ==
    CleanRun =>
        /\ IsPrefix(order, HappyPath)
        /\ again = {}
        /\ pc = END <=> order = HappyPath

C5_Witness ==
    /\ CleanRun
    /\ pc = END
    /\ Len(order) = 10
    /\ again = {}
    /\ st.review_report.kind = "full"
    /\ st.review_report.findings # <<>>

C7_BestEffortAdvances ==
    last.node \in BestEffortSteps => Done(last.node, st)

(* C8: when a ticket or chat call failed inside the step that just ran,    *)
(* error is non-null when the step returns.                                *)
C8_DegradationRecorded ==
    last.degraded => st.error # None

(* C9: a run with a valid repository, a successful clone that found files  *)
(* and failures of ticket and chat calls only is never ended by an         *)
(* exception.                                                              *)
C9_NotificationFailuresNotFatal ==
    ( /\ st.is_valid_repo /\ ~st.ask_for_repo
      /\ Truthy(st.repo_path) /\ st.files_to_review # <<>>
      /\ ~hist.other_failed )
    => exc = None

(* C10: within one run no step function is executed more than once.        *)
C10_AtMostOnce ==
    \A n \in StepFunctions : n \notin again

(* C11: is_valid_repo, jira_created, review_started, deep_reviewed,        *)
(* report_generated, jira_updated and slack_updated only ever change from  *)
(* false to true: no step of a run, a re-executed parse_input or           *)
(* validate_repo included, takes a flag that is true back to false.        *)
Flags == {"is_valid_repo", "jira_created", "review_started", "deep_reviewed",
          "report_generated", "jira_updated", "slack_updated"}

C11_MonotonicFlags ==
    [][\A f \in Flags : st[f] => st'[f]]_vars

C11_Witness ==
    /\ last.node = "validate_repo"
    /\ last.done_before
    /\ st.is_valid_repo
    /\ st.ask_for_repo
    /\ st.validation_error # None

(* C12: when generate_report runs on a state whose findings are empty or   *)
(* whose review_report is absent, error is set and report_generated is     *)
(* still false after the step.                                             *)
EmptyFindings(s) ==
    s.review_report.kind = "none" \/ s.review_report.findings = <<>>

C12_EmptyFindingsFatal ==
    (last.node = "generate_report" /\ EmptyFindings(st)) =>
        (st.error # None /\ ~st.report_generated)

(* C13: when the analysis produced zero findings, the run never executes   *)
(* update_jira or update_slack and never reaches END, and report_generated *)
(* stays false.                                                            *)
C13_EmptyReportNotTerminal ==
    (st.deep_reviewed /\ EmptyFindings(st)) =>
        /\ ~Executed("update_jira")
        /\ ~Executed("update_slack")
        /\ pc # END
        /\ ~st.report_generated

(* C14: whenever the graph is at END, route_next_agent applied to the      *)
(* final state returns END.                                                *)
C14_EndOnlyWhenTerminal ==
    pc = END => route_next_agent(st) = END

(* C15: once ask_repo has run, the engine executes no further step         *)
(* function in that invoke: the last executed node is ask_repo and it ran  *)
(* once.                                                                   *)
C15_SuspendOnAskRepo ==
    Executed("ask_repo") => (last.node = "ask_repo" /\ "ask_repo" \notin again)

(* C16: after ask_repo was selected, when a later parse leaves a           *)
(* repository URL that matches the validation pattern and validate_repo    *)
(* has run on it, the repository is valid and ask_for_repo is false, so    *)
(* the router moves on from ask_repo.                                      *)
C16_InputErrorsRecoverable ==
    ( /\ Executed("ask_repo")
      /\ last.node = "validate_repo"
      /\ Truthy(st.repo_url) /\ url_pattern_matches(st.repo_url) )
    => ( /\ st.is_valid_repo
         /\ ~st.ask_for_repo
         /\ route_next_agent(st) # "ask_repo" )

(* C17: in every reachable state, is_valid_repo implies that repo_url is   *)
(* set and matches the validation pattern.                                 *)
C17_ValidImpliesUrl ==
    st.is_valid_repo => (Truthy(st.repo_url) /\ url_pattern_matches(st.repo_url))

(* C18: review_report is None while report_generated is false and is not   *)
(* None once report_generated is true.                                     *)
C18_ReportIffGenerated ==
    /\ ~st.report_generated => st.review_report = NoReport
    /\ st.report_generated => st.review_report # NoReport

(* C19: in every state reachable from a fresh ReviewState, jira_created    *)
(* implies that issue_key is set.                                          *)
C19_CreatedImpliesKey ==
    st.jira_created => Truthy(st.issue_key)

C19_Witness ==
    /\ last.node = "create_jira"
    /\ st.jira_created
    /\ st.issue_key = IssueKey
    /\ st.error = "Jira creation failed"

(* C20: no step after validation (create_jira, notify_slack, clone_repo,   *)
(* mark_review_in_progress, deep_review, generate_report, update_jira,     *)
(* update_slack) executes in a state where is_valid_repo is false or       *)
(* ask_for_repo is true.                                                   *)
GatedSteps == {"create_jira", "notify_slack", "clone_repo", "mark_review_in_progress",
               "deep_review", "generate_report", "update_jira", "update_slack"}

C20_Gating ==
    [][(pc \in GatedSteps /\ steps' = steps + 1) =>
          (st.is_valid_repo /\ ~st.ask_for_repo)]_vars

C20_Witness ==
    /\ last.node = "update_slack"
    /\ Executed("create_jira") /\ Executed("clone_repo") /\ Executed("deep_review")
    /\ st.is_valid_repo
    /\ ~st.ask_for_repo

(* C21: the first executions of the steps after validation occur in the    *)
(* order of the router guards (create_jira, notify_slack, clone_repo,      *)
(* mark_review_in_progress, deep_review, generate_report, update_jira,     *)
(* update_slack), and none of them executes in a state where the           *)
(* completion marker of an earlier one is unset.                           *)
GatedOrder == <<"create_jira", "notify_slack", "clone_repo", "mark_review_in_progress",
                "deep_review", "generate_report", "update_jira", "update_slack">>

IsGated(n) == n \in GatedSteps

C21_SideEffectOrder ==
    /\ [](IsPrefix(SelectSeq(order, IsGated), GatedOrder))
    /\ [][\A i \in 1..Len(GatedOrder) :
             (pc = GatedOrder[i] /\ steps' = steps + 1) =>
                 \A j \in 1..(i - 1) : Done(GatedOrder[j], st)]_vars

C21_Witness ==
    /\ pc = END
    /\ SelectSeq(order, IsGated) = GatedOrder
    /\ "create_jira" \in again
    /\ "clone_repo" \in again

(* C22: when validate_repo runs with repo_url set and ask_for_repo false,  *)
(* a URL that does not match the pattern gives validation_error and        *)
(* ask_for_repo = true and leaves is_valid_repo as it was, and a URL that  *)
(* matches gives is_valid_repo = true and leaves ask_for_repo false; no    *)
(* call sets both is_valid_repo and ask_for_repo.                          *)
C22_ValidatorOutcomes ==
    call.fn = "validate_repo" =>
        /\ (Truthy(call.pre.repo_url) /\ ~call.pre.ask_for_repo) =>
              IF url_pattern_matches(call.pre.repo_url)
              THEN st.is_valid_repo /\ ~st.ask_for_repo
              ELSE /\ st.validation_error # None
                   /\ st.ask_for_repo
                   /\ st.is_valid_repo = call.pre.is_valid_repo
        /\ ~( /\ st.is_valid_repo /\ ~call.pre.is_valid_repo
              /\ st.ask_for_repo /\ ~call.pre.ask_for_repo )

C22_Witness ==
    /\ call.fn = "validate_repo"
    /\ call.pre.repo_url = BadHost
    /\ ~call.pre.ask_for_repo /\ ~call.pre.is_valid_repo
    /\ call.pre.validation_error = None
    /\ st.validation_error = "Invalid URL"
    /\ st.ask_for_repo /\ ~st.is_valid_repo

(* C23: whenever parse_user_input returns after the LLM call raised, or    *)
(* after a response that was not JSON from which no URL could be           *)
(* extracted, or after a response without a repository URL, ask_for_repo   *)
(* is true.                                                                *)
ParserGaveNoRepo(pre, r) ==
    \/ r.kind = "error"
    \/ r.kind = "notjson" /\ regex_fallback(pre.user_input) = None
    \/ r.kind = "json" /\ (~Truthy(r.repo_url) \/ r.repo_url = "null")

C23_ParseFailureAsks ==
    (call.fn = "parse_user_input" /\ ParserGaveNoRepo(call.pre, call.arg)) =>
        st.ask_for_repo

(* C24: after parse_user_input returns, on every path, review_intent is    *)
(* "deep_review" or the explicit non-empty value the parser gave: a        *)
(* missing, null, empty or "null" intent and the regex fallback give       *)
(* "deep_review", the other paths keep the value the state had.            *)
C24_IntentDefault ==
    call.fn = "parse_user_input" =>
        /\ st.review_intent \notin {None, ""}
        /\ st.review_intent =
              IF call.arg.kind = "json"
              THEN (IF call.arg.review_intent \in {None, "", "null"}
                    THEN "deep_review" ELSE call.arg.review_intent)
              ELSE IF call.arg.kind = "notjson" /\ regex_fallback(call.pre.user_input) # None
              THEN "deep_review"
              ELSE call.pre.review_intent

C24_Witness ==
    /\ call.fn = "parse_user_input"
    /\ call.arg.kind = "json"
    /\ call.arg.review_intent = ""
    /\ call.pre.review_intent = "security_focused"
    /\ st.review_intent = "deep_review"

(* C25: for a non-empty sequence of findings with scores in 0..100,        *)
(* generate_report sets score and review_report.overall_score to the mean  *)
(* of the scores truncated to an integer, a finding without score counting *)
(* as 70: [80, 81] gives 80 and [90, 70, 80] gives 80.                     *)
ScoreOf(f) == IF f.score = NoScore THEN 70 ELSE f.score

ScoresOf(findings) == [i \in 1..Len(findings) |-> ScoreOf(findings[i])]

RECURSIVE Total(_)
Total(scores) == IF scores = <<>> THEN 0 ELSE Head(scores) + Total(Tail(scores))

C25_ScoreTruncation ==
    (call.fn = "generate_report" /\ call.pre.review_report.kind = "raw"
     /\ call.pre.review_report.findings # <<>>) =>
        LET scores == ScoresOf(call.pre.review_report.findings)
            n == Len(scores)
        IN /\ st.score * n <= Total(scores)
           /\ Total(scores) < (st.score + 1) * n
           /\ st.review_report.overall_score = st.score
           /\ scores = <<80, 81>> => st.score = 80
           /\ scores = <<90, 70, 80>> => st.score = 80

C25_Witness ==
    /\ call.fn = "generate_report"
    /\ call.pre.review_report.kind = "raw"
    /\ ScoresOf(call.pre.review_report.findings) = <<80, 81>>
    /\ st.score = 80
    /\ st.review_report.overall_score = 80

(* C26: after a successful generate_report, critical_issues is the         *)
(* concatenation, over the findings in order and the issues of each in     *)
(* order, of the issues whose severity is "critical", high_priority the    *)
(* same for "high", and no issue is in both lists.                         *)
RECURSIVE AllIssues(_)
AllIssues(findings) ==
    IF findings = <<>> THEN <<>> ELSE Head(findings).issues \o AllIssues(Tail(findings))

IsCritical(issue) == issue.severity = "critical"

IsHigh(issue) == issue.severity = "high"

SeqRange(q) == {q[i] : i \in 1..Len(q)}

C26_SeverityAggregation ==
    (call.fn = "generate_report" /\ st.review_report.kind = "full") =>
        LET issues == AllIssues(call.pre.review_report.findings) IN
        /\ st.critical_issues = SelectSeq(issues, IsCritical)
        /\ st.high_priority = SelectSeq(issues, IsHigh)
        /\ SeqRange(st.critical_issues) \cap SeqRange(st.high_priority) = {}

C26_Witness ==
    /\ call.fn = "generate_report"
    /\ st.review_report.kind = "full"
    /\ Len(call.pre.review_report.findings) = 3
    /\ Len(st.critical_issues) = 3
    /\ Len(st.high_priority) = 2
    /\ st.critical_issues[1].line = 7
    /\ st.critical_issues[3].line = 1

(* C27: for every file that was read and whose analyzer call returned      *)
(* text, deep_code_review appends exactly one finding, in file order, and  *)
(* for text that is not JSON the finding is the placeholder with score 70  *)
(* that carries the raw text.                                              *)
C27_PlaceholderFinding ==
    (call.fn = "deep_code_review" /\ call.pre.files_to_review # <<>>
     /\ Truthy(call.pre.repo_path)) =>
        LET files == call.pre.files_to_review
            R == call.arg
            Returned(i) == R[i].kind # "error"
            idx == SelectSeq([i \in 1..Len(files) |-> i], Returned)
            findings == st.review_report.findings
        IN /\ st.review_report.kind = "raw"
           /\ Len(findings) = Len(idx)
           /\ \A k \in 1..Len(idx) :
                 /\ findings[k].file = files[idx[k]]
                 /\ R[idx[k]].kind = "notjson" =>
                       (findings[k].placeholder /\ findings[k].score = 70)
                 /\ R[idx[k]].kind = "json" =>
                       (~findings[k].placeholder /\ findings[k].score = R[idx[k]].score)

C27_Witness ==
    /\ call.fn = "deep_code_review"
    /\ st.review_report.kind = "raw"
    /\ Len(call.pre.files_to_review) = 3
    /\ call.arg[1].kind = "notjson"
    /\ call.arg[2].kind = "error"
    /\ call.arg[3].kind = "json"
    /\ Len(st.review_report.findings) = 2
    /\ st.review_report.findings[1].placeholder
    /\ st.review_report.findings[2].file = "c.py"

(* C28: route_next_agent returns the same value for any two states that    *)
(* differ only in agent_status and error.                                  *)
StatusValues == {"initialized", "parsed", "jira_update_failed"}

ErrorValues == {None, "Slack error", "No findings"}

C28_RoutingIgnoresInfo ==
    pc = "route_done" =>
        \A a \in StatusValues, e \in ErrorValues :
            route_next_agent([st EXCEPT !.agent_status = a, !.error = e]) = routed

C28_Witness ==
    /\ pc = "route_done"
    /\ st.error = "Slack error"
    /\ routed = "clone_repo"

(* C29: in every reachable state, score is 0 unless generate_report has    *)
(* built the full report in this run.                                      *)
C29_ScoreZeroUnlessReport ==
    st.review_report.kind # "full" => st.score = 0

C29_Witness ==
    /\ pc = END
    /\ st.report_generated
    /\ st.review_report.kind # "full"
    /\ st.error # None
    /\ st.score = 0

(* C30: whenever clone_and_analyze returns after the clone or the file     *)
(* search failed, the directory it created for the attempt is gone.        *)
C30_CloneCleanup ==
    (call.fn = "clone_and_analyze" /\ {"git.clone", "rglob"} \cap call.arg.F # {}
     /\ "os.makedirs" \notin call.arg.F) =>
        (st.error = "Repository clone failed" /\ call.dirs = {})

(* C31: runs executed in the same process share no mutable state: every    *)
(* notification of a run goes to the chat thread that run opened and to    *)
(* the issue that run created, never to those of another run.              *)
C31_RunIsolation ==
    call.fn = "notify_step" =>
        /\ call.thread_ts \in {None, RunThreadTs(call.run)}
        /\ call.issue_key \in {None, RunIssueKey(call.run)}

(* C32: transition_to_status applies at most one transition per call; it   *)
(* applies one exactly when no ticket call raises and some listed          *)
(* transition has a lower-cased name that contains one of the candidate    *)
(* names, then it is the first such transition of the listing and the      *)
(* result is True; otherwise the result is False and nothing is applied.   *)
Matching(transitions, names) ==
    { i \in 1..Len(transitions) :
        \E k \in 1..Len(names) : IsSubstring(names[k], lower(transitions[i])) }

C32_FuzzyTransition ==
    call.fn = "transition_to_status" =>
        LET M == Matching(call.pre.transitions, call.arg.possible_status_names)
            applies == M # {} /\ call.arg.F = {}
        IN /\ Len(st.applied) <= 1
           /\ applies => (st.applied = <<Min(M)>> /\ call.ret)
           /\ (M = {} \/ "jira.transitions" \in call.arg.F
               \/ (M # {} /\ "jira.transition_issue" \in call.arg.F))
                 => (st.applied = <<>> /\ ~call.ret)
           /\ st.transitions = call.pre.transitions

C32_Witness ==
    /\ call.fn = "transition_to_status"
    /\ call.arg.possible_status_names = DoneNames
    /\ call.arg.F = {}
    /\ Len(call.pre.transitions) = 2
    /\ lower(call.pre.transitions[1]) = lower(<<"M", "a", "r", "k", " ", "a", "s", " ", "D", "O", "N", "E">>)
    /\ lower(call.pre.transitions[2]) = lower(<<"D", "o", "n", "e">>)
    /\ st.applied = <<1>>
    /\ call.ret

(* C33: when generate_report fails because review_report is absent or its  *)
(* findings are empty, it changes only error: score, critical_issues,      *)
(* high_priority, review_report, agent_status and every other field are as *)
(* before the call.                                                        *)
C33_FailureFrame ==
    (call.fn = "generate_report"
     /\ (call.pre.review_report.kind = "none"
         \/ (call.pre.review_report.kind = "raw" /\ call.pre.review_report.findings = <<>>))) =>
        /\ st = [call.pre EXCEPT !.error = st.error]
        /\ st.error = (IF call.pre.review_report.kind = "none"
                       THEN "No review findings" ELSE "No findings")
        /\ st.score = call.pre.score
        /\ st.critical_issues = call.pre.critical_issues
        /\ st.high_priority = call.pre.high_priority
        /\ st.review_report = call.pre.review_report
        /\ st.agent_status = call.pre.agent_status

C33_Witness ==
    /\ call.fn = "generate_report"
    /\ call.pre.review_report.kind = "raw"
    /\ call.pre.review_report.findings = <<>>
    /\ call.pre.error = None
    /\ st.error = "No findings"
    /\ st.agent_status = call.pre.agent_status

(* C34: once generate_report has succeeded, in that state and every later  *)
(* state of the run, review_report.overall_score equals score,             *)
(* critical_issues_count equals the length of critical_issues,             *)
(* high_issues_count the length of high_priority, and files_reviewed and   *)
(* summary.total_files both equal the number of findings.                  *)
C34_ReportConsistency ==
    st.review_report.kind = "full" =>
        /\ st.review_report.overall_score = st.score
        /\ st.review_report.critical_issues_count = Len(st.critical_issues)
        /\ st.review_report.high_issues_count = Len(st.high_priority)
        /\ st.review_report.files_reviewed = Len(st.review_report.findings)
        /\ st.review_report.summary.total_files = Len(st.review_report.findings)

C34_Witness ==
    /\ st.review_report.kind = "full"
    /\ st.jira_updated
    /\ st.agent_status = "slack_updated"
    /\ st.review_report.critical_issues_count > 0
    /\ st.review_report.files_reviewed = 1
    /\ st.review_report.overall_score = st.score

(* C35: within a run a transition to a done status is applied to the       *)
(* ticket only after the review summary comment has been posted to it;     *)
(* when update_jira_results is skipped or fails before posting the         *)
(* summary, no done transition is applied; and a done transition is        *)
(* applied at most once.                                                   *)
IsDoneTransition(e) == e.op = "transition" /\ AnyNameIn(DoneNames, lower(e.name))

DoneTransitions(ticket) == { i \in 1..Len(ticket) : IsDoneTransition(ticket[i]) }

C35_DoneAfterPublication ==
    call.fn = "update_jira_wrapper" =>
        /\ \A i \in DoneTransitions(call.ticket) :
               \E j \in 1..(i - 1) : call.ticket[j].op = "comment_summary"
        /\ Cardinality(DoneTransitions(call.ticket)) <= 1

(* C36: if repo_path is set when clone_and_analyze returns, the directory  *)
(* it names exists: it was created by a successful clone and has not been  *)
(* removed by the step; whenever the step removed its working directory,   *)
(* repo_path is unset and the router does not go past clone_repo.          *)
C36_RepoPathNamesDirectory ==
    call.fn = "clone_and_analyze" =>
        /\ Truthy(st.repo_path) => st.repo_path \in call.dirs
        /\ ("os.makedirs" \notin call.arg.F /\ call.dirs = {}) =>
               /\ ~Truthy(st.repo_path)
               /\ route_next_agent(st) \in {"notify_slack", "clone_repo"}

(* C37: within one graph run, once ask_for_repo is true no step resets it  *)
(* to false; from that point the only nodes that execute are               *)
(* orchestrator_router, ask_repo, parse_input and validate_repo, and the   *)
(* run never reaches END: it can only end by an exception.                 *)
AskNodes == {"orchestrator_router", "ask_repo", "parse_input", "validate_repo"}

C37_AskForRepoSticky ==
    /\ []((pc \in Nodes \cup {END} /\ st.ask_for_repo) => pc \in AskNodes)
    /\ [][(pc \in Nodes /\ st.ask_for_repo) =>
             (st'.ask_for_repo /\ pc' \in AskNodes \cup {"raised"})]_vars

C37_Witness ==
    /\ caller = "cli"
    /\ pc = "raised"
    /\ exc = "GraphRecursionError"
    /\ st.ask_for_repo
    /\ Executed("ask_repo")
    /\ "parse_input" \in again
    /\ ~Executed("create_jira")

(* C38: the supervisor_decide node is never executed in a run of the       *)
(* compiled graph: the router never returns "supervisor_decide" and no     *)
(* edge leads to the node, so after the clone step no step rewrites        *)
(* files_to_review.                                                        *)
C38_SupervisorNeverRuns ==
    /\ [](/\ pc # "supervisor_decide"
          /\ routed # "supervisor_decide"
          /\ ~Executed("supervisor_decide")
          /\ st.agent_status # "supervisor_decided")
    /\ [][pc # "clone_repo" => st'.files_to_review = st.files_to_review]_vars

C38_Witness ==
    /\ last.node = "deep_review"
    /\ Executed("mark_review_in_progress")
    /\ st.files_to_review = PyFiles(MaxFiles)
    /\ st.agent_status = "code_reviewed"
    /\ ~Executed("supervisor_decide")

(* C39: in the agent-to-agent graph iteration_count grows by exactly 1 on  *)
(* every supervisor execution; a supervisor execution that sees            *)
(* iteration_count > 10 sets task_completed, and the orchestrator then     *)
(* routes to END without running another agent; for any sequence of LLM    *)
(* decisions the supervisor executes at most 12 times and the run          *)
(* terminates.                                                             *)
CapStates ==
    { [InitialState EXCEPT !.messages = [len |-> n, last |-> c],
                           !.iteration_count = i, !.task_completed = t] :
      n \in {0, 2}, c \in {"plain", "complete"}, i \in 9..12, t \in BOOLEAN }

C39_IterationBound ==
    /\ [][(pc = "supervisor" /\ pc' = "orchestrator") =>
             st'.iteration_count = st.iteration_count + 1]_vars
    /\ [](\A s \in CapStates, c \in Contents, d \in Decisions :
             LET s2 == supervisor(s, c) IN
             /\ s2.iteration_count = s.iteration_count + 1
             /\ s.iteration_count > 10 =>
                    /\ s2.task_completed
                    /\ a2a_edges[orchestrator(s2, d).next_node] = END)
    /\ [][(pc = "orchestrator" /\ st.task_completed) => pc' \in {END, "raised"}]_vars
    /\ [](Executions <= 12 /\ (pc \in A2ANodes => st.iteration_count = Executions))
    /\ <>(pc = "done")

C39_Witness ==
    /\ pc = "done"
    /\ exc = "GraphRecursionError"
    /\ Executions = 9
    /\ st.iteration_count = 9
    /\ ~st.task_completed

====
